---------------------------- MODULE Spec2Model ----------------------------
(***************************************************************************)
(* Hybrid-Crypto-Model: Hill cipher (hill_cipher.py), SDES (sdes.py), LSB  *)
(* steganography (steganography.py) and the orchestrator (hybrid_model.py).*)
(*                                                                         *)
(* Characters are modelled by their code points (ord), strings by          *)
(* sequences of code points, bit arrays by sequences over {0,1}.           *)
(* Every operation that can raise returns a record                         *)
(*     [ok |-> BOOLEAN, val |-> value, err |-> error kind]                  *)
(* where ok = FALSE stands for the exception raised by the code.           *)
(***************************************************************************)
EXTENDS Integers, Sequences, FiniteSets, TLC

VARIABLES hill, sdes, files, stego, hybrid

vars == <<hill, sdes, files, stego, hybrid>>

\* Python's None, for an optional path, key matrix or key
None == <<>>

Ok(v) == [ok |-> TRUE, val |-> v, err |-> "none"]
Raise(e) == [ok |-> FALSE, val |-> <<>>, err |-> e]

(***************************************************************************)
(* Generic sequence helpers.                                               *)
(***************************************************************************)
RECURSIVE Flatten(_)
Flatten(ss) == IF ss = <<>> THEN <<>> ELSE Head(ss) \o Flatten(Tail(ss))

Slice(s, from, to) == [i \in 1..(to - from + 1) |-> s[from + i - 1]]

Min(a, b) == IF a <= b THEN a ELSE b
Max(a, b) == IF a >= b THEN a ELSE b

\* all sequences over S of length 0..n
SeqsUpTo(S, n) == UNION {[1..k -> S] : k \in 0..n}

(***************************************************************************)
(* Hill cipher  (src/hill_cipher.py)                                       *)
(***************************************************************************)
alphabet_size == 26

\* str.isalpha / str.upper on the ASCII range
\* str.isalpha() of a character up to U+00FF: the ASCII letters and the
\* letters of Latin-1 (not the signs U+00D7 and U+00F7)
IsAlpha(c) ==
    \/ c \in 65..90 \/ c \in 97..122
    \/ c \in {170, 181, 186}
    \/ c \in 192..214 \/ c \in 216..246 \/ c \in 248..255

\* str.upper() of a character whose upper case is one character
Upper(c) ==
    IF c \in 97..122 THEN c - 32
    ELSE IF c \in 224..254 /\ c # 247 THEN c - 32
    ELSE IF c = 255 THEN 376
    ELSE IF c = 181 THEN 924
    ELSE c

\* str.upper() as a string: the upper case of U+00DF is the two letters "SS"
UpperStr(c) == IF c = 223 THEN <<83, 83>> ELSE <<Upper(c)>>

char_to_num(char) == Upper(char) - 65
num_to_char(num) == (num % alphabet_size) + 65

prepare_text_keeping_digits(text) ==
    LET letters == SelectSeq(text, LAMBDA c : IsAlpha(c) \/ c \in 48..57)
        cleaned == Flatten([i \in 1..Len(letters) |-> UpperStr(letters[i])])
    IN  IF Len(cleaned) % 2 = 1 THEN Append(cleaned, 88) ELSE cleaned

prepare_text(text) ==
    LET letters == SelectSeq(text, IsAlpha)
        cleaned == Flatten([i \in 1..Len(letters) |-> UpperStr(letters[i])])
    IN  IF Len(cleaned) % 2 = 1 THEN Append(cleaned, 88) ELSE cleaned

\* int(np.round(np.linalg.det(m))) for a 2x2 integer matrix
Det(m) == m[1][1] * m[2][2] - m[1][2] * m[2][1]

RECURSIVE gcd(_, _)
gcd(a, b) == IF b = 0 THEN a ELSE gcd(b, a % b)

RECURSIVE extended_gcd(_, _)
extended_gcd(a, b) ==
    IF a = 0 THEN <<b, 0, 1>>
    ELSE LET r == extended_gcd(b % a, a)
         IN  <<r[1], r[3] - (b \div a) * r[2], r[2]>>

mod_inverse_unreduced(a, m) ==
    IF gcd(a, m) # 1 THEN Raise("ValueError: modular inverse does not exist")
    ELSE Ok(extended_gcd(a % m, m)[2])

mod_inverse(a, m) ==
    IF gcd(a, m) # 1 THEN Raise("ValueError: modular inverse does not exist")
    ELSE Ok(((extended_gcd(a % m, m)[2] % m) + m) % m)

matrix_mod_inverse_no_det_inv(matrix, mod) ==
    LET det == Det(matrix) % mod
    IN  IF gcd(det, mod) # 1
        THEN Raise("ValueError: matrix is not invertible")
        ELSE LET adj == << <<matrix[2][2], -matrix[1][2]>>,
                           <<-matrix[2][1], matrix[1][1]>> >>
             IN  Ok([r \in 1..2 |-> [c \in 1..2 |-> adj[r][c] % mod]])

matrix_mod_inverse(matrix, mod) ==
    LET det == Det(matrix) % mod
    IN  IF gcd(det, mod) # 1
        THEN Raise("ValueError: matrix is not invertible")
        ELSE LET det_inv == mod_inverse(det, mod).val
                 adj == << <<matrix[2][2], -matrix[1][2]>>,
                           <<-matrix[2][1], matrix[1][1]>> >>
             IN  Ok([r \in 1..2 |-> [c \in 1..2 |-> (det_inv * adj[r][c]) % mod]])

validate_key_matrix_no13(key_matrix) == (Det(key_matrix) % alphabet_size) % 2 = 1

validate_key_matrix(key_matrix) ==
    gcd(Det(key_matrix) % alphabet_size, alphabet_size) = 1

HillBlock_transposed(m, block) ==
    LET v1 == char_to_num(block[1])
        v2 == char_to_num(block[2])
    IN  << num_to_char((m[1][1] * v1 + m[2][1] * v2) % alphabet_size),
           num_to_char((m[1][2] * v1 + m[2][2] * v2) % alphabet_size) >>

\* one 2-letter block through the matrix m: (m * v) mod 26
HillBlock(m, block) ==
    LET v1 == char_to_num(block[1])
        v2 == char_to_num(block[2])
    IN  << num_to_char((m[1][1] * v1 + m[1][2] * v2) % alphabet_size),
           num_to_char((m[2][1] * v1 + m[2][2] * v2) % alphabet_size) >>

\* for i in range(0, len(cleaned_text), 2): block = cleaned_text[i:i+2],
\* padded with 'X' when it holds one letter
HillBlocks(m, cleaned_text) ==
    LET n == Len(cleaned_text)
        block(k) == LET b == Slice(cleaned_text, 2 * k - 1, Min(2 * k, n))
                    IN  IF Len(b) = 1 THEN Append(b, 88) ELSE b
    IN  Flatten([k \in 1..((n + 1) \div 2) |-> HillBlock(m, block(k))])

hill_encrypt_late_check(plaintext, key_matrix) ==
    LET cleaned_text == prepare_text(plaintext)
    IN  IF Len(cleaned_text) = 0 THEN Ok(<<>>)
        ELSE IF ~validate_key_matrix(key_matrix)
        THEN Raise("ValueError: key matrix is not valid")
        ELSE Ok(HillBlocks(key_matrix, cleaned_text))

hill_encrypt(plaintext, key_matrix) ==
    IF ~validate_key_matrix(key_matrix)
    THEN Raise("ValueError: key matrix is not valid")
    ELSE LET cleaned_text == prepare_text(plaintext)
         IN  IF Len(cleaned_text) = 0 THEN Ok(<<>>)
             ELSE Ok(HillBlocks(key_matrix, cleaned_text))

hill_decrypt(ciphertext, key_matrix) ==
    IF ~validate_key_matrix(key_matrix)
    THEN Raise("ValueError: key matrix is not valid")
    ELSE LET inv == matrix_mod_inverse(key_matrix, alphabet_size)
         IN  IF ~inv.ok THEN inv
             ELSE LET cleaned_text == prepare_text(ciphertext)
                  IN  IF Len(cleaned_text) = 0 THEN Ok(<<>>)
                      ELSE Ok(HillBlocks(inv.val, cleaned_text))

(***************************************************************************)
(* SDES  (src/sdes.py)                                                     *)
(***************************************************************************)
P10 == <<3, 5, 2, 7, 4, 10, 1, 9, 8, 6>>
P8 == <<6, 3, 7, 4, 8, 5, 10, 9>>
IP == <<2, 6, 3, 1, 4, 8, 5, 7>>
IP_INV == <<4, 1, 3, 5, 7, 2, 8, 6>>
EP == <<4, 1, 2, 3, 2, 3, 4, 1>>
P4 == <<2, 4, 3, 1>>

S0 == << <<1, 0, 3, 2>>, <<3, 2, 1, 0>>, <<0, 2, 1, 3>>, <<3, 1, 3, 2>> >>
S1 == << <<0, 1, 2, 3>>, <<2, 0, 1, 3>>, <<3, 0, 1, 0>>, <<2, 1, 0, 3>> >>

permute(bits, table) == [i \in 1..Len(table) |-> bits[table[i]]]

left_shift(bits, shifts) ==
    SubSeq(bits, shifts + 1, Len(bits)) \o SubSeq(bits, 1, shifts)

\* Python's ^ and | on non-negative integers
RECURSIVE XorInt(_, _)
XorInt(a, b) ==
    IF a = 0 THEN b
    ELSE IF b = 0 THEN a
    ELSE ((a + b) % 2) + 2 * XorInt(a \div 2, b \div 2)

RECURSIVE OrInt(_, _)
OrInt(a, b) ==
    IF a = 0 THEN b
    ELSE IF b = 0 THEN a
    ELSE Max(a % 2, b % 2) + 2 * OrInt(a \div 2, b \div 2)

\* [b1 ^ b2 for b1, b2 in zip(bits1, bits2)]
xor(bits1, bits2) ==
    [i \in 1..Min(Len(bits1), Len(bits2)) |-> XorInt(bits1[i], bits2[i])]

RECURSIVE Pow2(_)
Pow2(n) == IF n = 0 THEN 1 ELSE 2 * Pow2(n - 1)

\* [(num >> i) & 1 for i in range(length-1, -1, -1)]
int_to_bits(num, length) ==
    [j \in 1..length |-> (num \div Pow2(length - j)) % 2]

RECURSIVE bits_to_int(_)
bits_to_int(bits) ==
    IF bits = <<>> THEN 0
    ELSE OrInt(2 * bits_to_int(SubSeq(bits, 1, Len(bits) - 1)), bits[Len(bits)])

\* 8 bits per character, most significant first: (ord(char) >> i) & 1
string_to_bits(text) ==
    Flatten([k \in 1..Len(text) |-> int_to_bits(text[k], 8)])

\* blocks bits[i:i+8] for i in range(0, len(bits), 8)
Blocks8(bits) ==
    [k \in 1..((Len(bits) + 7) \div 8) |->
        Slice(bits, 8 * k - 7, Min(8 * k, Len(bits)))]

ByteValue(byte) ==
    byte[1] * 128 + byte[2] * 64 + byte[3] * 32 + byte[4] * 16
        + byte[5] * 8 + byte[6] * 4 + byte[7] * 2 + byte[8]

\* an incomplete trailing byte is skipped
bits_to_string(bits) ==
    LET full == SelectSeq(Blocks8(bits), LAMBDA byte : Len(byte) = 8)
    IN  [k \in 1..Len(full) |-> ByteValue(full[k])]

\* A key is [type |-> "str", val |-> code points] or [type |-> "list", val |-> ints]
StrKey(s) == [type |-> "str", val |-> s]
ListKey(l) == [type |-> "list", val |-> l]

KeySchedule_k2_from_halves(key_bits) ==
    LET p10_key == permute(key_bits, P10)
        left_half == SubSeq(p10_key, 1, 5)
        right_half == SubSeq(p10_key, 6, 10)
        k1 == permute(left_shift(left_half, 1) \o left_shift(right_half, 1), P8)
        k2 == permute(left_shift(left_half, 2) \o left_shift(right_half, 2), P8)
    IN  <<k1, k2>>

KeySchedule(key_bits) ==
    LET p10_key == permute(key_bits, P10)
        left_half == SubSeq(p10_key, 1, 5)
        right_half == SubSeq(p10_key, 6, 10)
        left_k1 == left_shift(left_half, 1)
        right_k1 == left_shift(right_half, 1)
        k1 == permute(left_k1 \o right_k1, P8)
        left_k2 == left_shift(left_k1, 2)
        right_k2 == left_shift(right_k1, 2)
        k2 == permute(left_k2 \o right_k2, P8)
    IN  <<k1, k2>>

sdes_generate_keys(key) ==
    IF key.type = "str"
    THEN IF Len(key.val) # 10 \/ \E i \in 1..Len(key.val) : key.val[i] \notin {48, 49}
         THEN Raise("ValueError: key must be a 10-bit binary string")
         ELSE Ok(KeySchedule([i \in 1..10 |-> key.val[i] - 48]))
    ELSE IF key.type = "list"
    THEN IF Len(key.val) # 10
         THEN Raise("ValueError: key must be 10 bits long")
         ELSE Ok(KeySchedule(key.val))
    ELSE Raise("ValueError: key must be a string or list")

SboxRow(g) == OrInt(2 * g[1], g[4])
SboxCol(g) == OrInt(2 * g[2], g[3])

sbox_substitution_column_first(bits) ==
    LET left_4 == SubSeq(bits, 1, 4)
        right_4 == SubSeq(bits, 5, Len(bits))
        s0_output == S0[SboxCol(left_4) + 1][SboxRow(left_4) + 1]
        s1_output == S1[SboxCol(right_4) + 1][SboxRow(right_4) + 1]
    IN  int_to_bits(s0_output, 2) \o int_to_bits(s1_output, 2)

sbox_substitution(bits) ==
    LET left_4 == SubSeq(bits, 1, 4)
        right_4 == SubSeq(bits, 5, Len(bits))
        s0_output == S0[SboxRow(left_4) + 1][SboxCol(left_4) + 1]
        s1_output == S1[SboxRow(right_4) + 1][SboxCol(right_4) + 1]
    IN  int_to_bits(s0_output, 2) \o int_to_bits(s1_output, 2)

f_function(right_half, subkey) ==
    permute(sbox_substitution(xor(permute(right_half, EP), subkey)), P4)

encrypt_block_swapped_final(plaintext_bits, k1, k2) ==
    LET ip_result == permute(plaintext_bits, IP)
        left0 == SubSeq(ip_result, 1, 4)
        right0 == SubSeq(ip_result, 5, 8)
        new_left1 == xor(left0, f_function(right0, k1))
        left == right0
        right == new_left1
        new_left == xor(left, f_function(right, k2))
    IN  permute(right \o new_left, IP_INV)

encrypt_block_no_swap(plaintext_bits, k1, k2) ==
    LET ip_result == permute(plaintext_bits, IP)
        left0 == SubSeq(ip_result, 1, 4)
        right0 == SubSeq(ip_result, 5, 8)
        left == xor(left0, f_function(right0, k1))
        right == right0
        new_left == xor(left, f_function(right, k2))
    IN  permute(new_left \o right, IP_INV)

encrypt_block(plaintext_bits, k1, k2) ==
    LET ip_result == permute(plaintext_bits, IP)
        left0 == SubSeq(ip_result, 1, 4)
        right0 == SubSeq(ip_result, 5, 8)
        \* round 1, then swap halves
        new_left1 == xor(left0, f_function(right0, k1))
        left == right0
        right == new_left1
        \* round 2, no swap
        new_left == xor(left, f_function(right, k2))
    IN  permute(new_left \o right, IP_INV)

decrypt_block_same_order(ciphertext_bits, k1, k2) ==
    encrypt_block(ciphertext_bits, k1, k2)

decrypt_block(ciphertext_bits, k1, k2) == encrypt_block(ciphertext_bits, k2, k1)

\* An S-box index outside 0..3 is an IndexError.  Bits stay bits through
\* permute, xor and the S-boxes, so it can only happen when the key or the
\* ciphertext holds an element other than 0 and 1; the callers test that first.
SboxIndexError(half, subkey) ==
    LET x == xor(permute(half, EP), subkey)
        l == SubSeq(x, 1, 4)
        r == SubSeq(x, 5, Len(x))
    IN  \/ SboxRow(l) > 3 \/ SboxCol(l) > 3
        \/ SboxRow(r) > 3 \/ SboxCol(r) > 3

AllBits(s) == \A i \in 1..Len(s) : s[i] \in {0, 1}

BlockIndexError(bits, k1, k2) ==
    LET ip_result == permute(bits, IP)
        left0 == SubSeq(ip_result, 1, 4)
        right0 == SubSeq(ip_result, 5, 8)
    IN  \/ SboxIndexError(right0, k1)
        \/ SboxIndexError(xor(left0, f_function(right0, k1)), k2)

sdes_encrypt(plaintext, key) ==
    LET ks == sdes_generate_keys(key)
    IN  IF ~ks.ok THEN ks
        ELSE LET plaintext_bits == string_to_bits(plaintext)
                 blocks == Blocks8(plaintext_bits)
             IN  IF /\ ~AllBits(ks.val[1] \o ks.val[2])
                    /\ \E k \in 1..Len(blocks) :
                        BlockIndexError(blocks[k], ks.val[1], ks.val[2])
                 THEN Raise("IndexError: list index out of range")
                 ELSE Ok(Flatten([k \in 1..Len(blocks) |->
                            encrypt_block(blocks[k], ks.val[1], ks.val[2])]))

sdes_decrypt(ciphertext_bits, key) ==
    LET ks == sdes_generate_keys(key)
    IN  IF ~ks.ok THEN ks
        ELSE LET full == SelectSeq(Blocks8(ciphertext_bits),
                                   LAMBDA block : Len(block) = 8)
             IN  IF /\ ~AllBits(ciphertext_bits \o ks.val[1] \o ks.val[2])
                    /\ \E k \in 1..Len(full) :
                        BlockIndexError(full[k], ks.val[2], ks.val[1])
                 THEN Raise("IndexError: list index out of range")
                 ELSE Ok(Flatten([k \in 1..Len(full) |->
                            decrypt_block(full[k], ks.val[1], ks.val[2])]))

\* ''.join(str(bit) for bit in encrypted_bits): the characters '0' and '1'
encrypt_text(plaintext, key) ==
    LET r == sdes_encrypt(plaintext, key)
    IN  IF ~r.ok THEN r ELSE Ok([i \in 1..Len(r.val) |-> 48 + r.val[i]])

\* [int(c) for c in ciphertext_binary]: int() accepts the decimal digits only
decrypt_text(ciphertext_binary, key) ==
    IF \E i \in 1..Len(ciphertext_binary) : ciphertext_binary[i] \notin 48..57
    THEN Raise("ValueError: invalid literal for int()")
    ELSE LET ciphertext_bits ==
                 [i \in 1..Len(ciphertext_binary) |-> ciphertext_binary[i] - 48]
             r == sdes_decrypt(ciphertext_bits, key)
         IN  IF ~r.ok THEN r ELSE Ok(bits_to_string(r.val))

(***************************************************************************)
(* Steganography  (src/steganography.py)                                   *)
(*                                                                         *)
(* An image file is [mode, w, h, px]: px holds the channel bytes in        *)
(* row-major, channel-minor order (np.array(img).flatten()).  A path is    *)
(* the sequence of the "_"-separated parts of its base name; every file is *)
(* a PNG, which stores the channel bytes losslessly.  The file system      *)
(* `files` is a function from the existing paths to their images.          *)
(***************************************************************************)
delimiter == <<35, 35, 35, 69, 78, 68, 35, 35, 35>>      \* "###END###"

\* The size limit max_size = (2000, 2000) of hide_message and the placeholder
\* size 1000 x 800 of hybrid_encrypt, scaled down to image sizes whose channel
\* bytes can be enumerated: the placeholder stays within the limit, and holds
\* the payload of a short plaintext but not of every plaintext of the model.
MaxDim == 12
SampleWidth == 9
SampleHeight == 8

Channels(mode) == IF mode = "RGBA" THEN 4 ELSE IF mode = "L" THEN 1 ELSE 3

Img(mode, w, h, px) == [mode |-> mode, w |-> w, h |-> h, px |-> px]

\* np.array(img).size
ArraySize(img) == img.w * img.h * Channels(img.mode)

FileExists(fs, path) == path \in DOMAIN fs

WriteFile(fs, path, img) ==
    [q \in (DOMAIN fs) \cup {path} |-> IF q = path THEN img ELSE fs[q]]

RECURSIVE BinDigits(_)
BinDigits(n) == IF n < 2 THEN <<n>> ELSE Append(BinDigits(n \div 2), n % 2)

\* format(ord(char), '08b'): at least 8 binary digits
Format08b(c) == IF c < 256 THEN int_to_bits(c, 8) ELSE BinDigits(c)

string_to_binary(text) == Flatten([k \in 1..Len(text) |-> Format08b(text[k])])

binary_to_string(binary) ==
    LET full == SelectSeq(Blocks8(binary), LAMBDA byte : Len(byte) = 8)
    IN  [k \in 1..Len(full) |-> ByteValue(full[k])]

modify_lsb_keep_low_bits(pixel_value, bit) == ((pixel_value \div 4) * 4) + bit

\* (pixel_value & 0xFE) | int(bit)
modify_lsb(pixel_value, bit) == ((pixel_value \div 2) * 2) + bit

get_lsb(pixel_value) == pixel_value % 2

\* img.convert('RGB'): the alpha channel is dropped, a grey level is tripled
convert_rgb(img) ==
    LET n == img.w * img.h
    IN  IF img.mode = "RGB" THEN img
        ELSE IF img.mode = "RGBA"
        THEN Img("RGB", img.w, img.h,
                 [i \in 1..(3 * n) |->
                     img.px[4 * ((i - 1) \div 3) + ((i - 1) % 3) + 1]])
        ELSE Img("RGB", img.w, img.h,
                 [i \in 1..(3 * n) |-> img.px[((i - 1) \div 3) + 1]])

\* img.thumbnail(max_size): the image is shrunk to fit max_size, keeping its
\* aspect ratio.  The resampling filter's values are stood for by the
\* nearest source pixel.
Oversized(img) == img.w > MaxDim \/ img.h > MaxDim

thumbnail(img) ==
    IF ~Oversized(img) THEN img
    ELSE LET nw == IF img.w >= img.h THEN MaxDim
                   ELSE Max(1, (2 * MaxDim * img.w + img.h) \div (2 * img.h))
             nh == IF img.w >= img.h
                   THEN Max(1, (2 * MaxDim * img.h + img.w) \div (2 * img.w))
                   ELSE MaxDim
             c == Channels(img.mode)
             src(i) == LET pix == (i - 1) \div c
                           x == pix % nw
                           y == pix \div nw
                           sx == (x * img.w) \div nw
                           sy == (y * img.h) \div nh
                       IN  c * (sy * img.w + sx) + ((i - 1) % c) + 1
         IN  Img(img.mode, nw, nh, [i \in 1..(nw * nh * c) |-> img.px[src(i)]])

\* the pixel array hide_message works on
LoadPixels(img) == convert_rgb(thumbnail(img))

\* os.path.splitext(image_path)[0] + "_stego.png"
StegoPath(image_path) == Append(image_path, "stego")

EmbedBits_clearing_the_rest(px, binary_message) ==
    [i \in 1..Len(px) |->
        IF i <= Len(binary_message) THEN modify_lsb(px[i], binary_message[i])
        ELSE modify_lsb(px[i], 0)]

EmbedBits(px, binary_message) ==
    [i \in 1..Len(px) |->
        IF i <= Len(binary_message) THEN modify_lsb(px[i], binary_message[i])
        ELSE px[i]]

CapacityExceeded_off_by_one(binary_message, max_capacity) ==
    Len(binary_message) >= max_capacity

CapacityExceeded_without_delimiter(binary_message, max_capacity) ==
    Len(binary_message) - 8 * Len(delimiter) > max_capacity

\* if len(binary_message) > max_capacity: raise ValueError
CapacityExceeded(binary_message, max_capacity) ==
    Len(binary_message) > max_capacity

\* Returns the raised/returned value and the file system after the call.
hide_message_saving_first(fs, image_path, message, output_path) ==
    IF ~FileExists(fs, image_path)
    THEN [res |-> Raise("Exception: Error hiding message: no such file"), files |-> fs]
    ELSE LET pixels == LoadPixels(fs[image_path])
             binary_message == string_to_binary(message \o delimiter)
             max_capacity == ArraySize(pixels)
             out == IF output_path = None THEN StegoPath(image_path) ELSE output_path
             saved == WriteFile(fs, out,
                          Img("RGB", pixels.w, pixels.h,
                              EmbedBits(pixels.px,
                                  SubSeq(binary_message, 1,
                                         Min(Len(binary_message), max_capacity)))))
         IN  IF CapacityExceeded(binary_message, max_capacity)
             THEN [res |-> Raise("Exception: Error hiding message: Message too large for image"),
                   files |-> saved]
             ELSE [res |-> Ok(<<out, Len(binary_message)>>), files |-> saved]

hide_message(fs, image_path, message, output_path) ==
    IF ~FileExists(fs, image_path)
    THEN [res |-> Raise("Exception: Error hiding message: no such file"), files |-> fs]
    ELSE LET pixels == LoadPixels(fs[image_path])
             binary_message == string_to_binary(message \o delimiter)
             max_capacity == ArraySize(pixels)
             out == IF output_path = None THEN StegoPath(image_path) ELSE output_path
         IN  IF CapacityExceeded(binary_message, max_capacity)
             THEN [res |-> Raise("Exception: Error hiding message: Message too large for image"),
                   files |-> fs]
             ELSE [res |-> Ok(<<out, Len(binary_message)>>),
                   files |-> WriteFile(fs, out,
                                 Img("RGB", pixels.w, pixels.h,
                                     EmbedBits(pixels.px, binary_message)))]

\* The LSBs are appended one at a time; after each one the buffer is tested
\* with endswith(delimiter_binary).  DelimiterEnds is the set of stream
\* positions at which that test succeeds.
DelimiterEnds(lsbs, delimiter_binary) ==
    LET d == Len(delimiter_binary)
    IN  {e \in d..Len(lsbs) :
            \A j \in 1..d : lsbs[e - d + j] = delimiter_binary[j]}

SetMin(S) == CHOOSE m \in S : \A x \in S : m <= x
SetMax(S) == CHOOSE m \in S : \A x \in S : m >= x

extract_message(fs, image_path) ==
    IF ~FileExists(fs, image_path)
    THEN Raise("Exception: Error extracting message: no such file")
    ELSE LET flat_pixels == convert_rgb(fs[image_path]).px
             lsbs == [i \in 1..Len(flat_pixels) |-> get_lsb(flat_pixels[i])]
             delimiter_binary == string_to_binary(delimiter)
             ends == DelimiterEnds(lsbs, delimiter_binary)
             binary_message ==
                 IF ends = {} THEN lsbs
                 ELSE SubSeq(lsbs, 1, SetMin(ends) - Len(delimiter_binary))
         IN  IF binary_message # <<>> THEN Ok(binary_to_string(binary_message))
             ELSE Ok(<<>>)

\* the capacity is taken from the file as stored: no resize, no conversion
get_image_capacity(fs, image_path) ==
    IF ~FileExists(fs, image_path)
    THEN Raise("Exception: Error calculating capacity: no such file")
    ELSE LET total_bits == ArraySize(fs[image_path])
             delimiter_bits == Len(string_to_binary(delimiter))
             available_bits == total_bits - delimiter_bits
         IN  Ok(<<available_bits \div 8, total_bits>>)

\* pixel (x, y) = [int(255*x/width), int(255*y/height), int(255*(x+y)/(width+height))]
GradientPixels(width, height) ==
    [i \in 1..(width * height * 3) |->
        LET pix == (i - 1) \div 3
            x == pix % width
            y == pix \div width
            ch == (i - 1) % 3
        IN  IF ch = 0 THEN (255 * x) \div width
            ELSE IF ch = 1 THEN (255 * y) \div height
            ELSE (255 * (x + y)) \div (width + height)]

create_sample_image(fs, width, height, output_path) ==
    WriteFile(fs, output_path, Img("RGB", width, height, GradientPixels(width, height)))

\* np.abs(pixels1.astype(int) - pixels2.astype(int))
AbsDiff(a, b) == IF a >= b THEN a - b ELSE b - a

\* the sum q[lo] + .. + q[hi]
RECURSIVE SumRange(_, _, _)
SumRange(q, lo, hi) ==
    IF lo > hi THEN 0
    ELSE IF lo = hi THEN q[lo]
    ELSE LET mid == (lo + hi) \div 2
         IN  SumRange(q, lo, mid) + SumRange(q, mid + 1, hi)

SeqSum(q) == SumRange(q, 1, Len(q))

\* The arrays of the two RGB-converted images are subtracted element by
\* element; arrays of different shapes cannot be (no image of the model has a
\* dimension of 1, which numpy would broadcast).  The mean and the percentage
\* are floating-point quotients: they are kept as <<numerator, denominator>>.
compare_images(fs, original_path, stego_path) ==
    IF ~FileExists(fs, original_path) \/ ~FileExists(fs, stego_path)
    THEN Raise("Exception: Error comparing images: no such file")
    ELSE LET img1 == convert_rgb(fs[original_path])
             img2 == convert_rgb(fs[stego_path])
         IN  IF img1.w # img2.w \/ img1.h # img2.h
             THEN Raise("Exception: Error comparing images: operands could not be broadcast together")
             ELSE LET diff == [i \in 1..Len(img1.px) |-> AbsDiff(img1.px[i], img2.px[i])]
                      changed_pixels == Cardinality({i \in 1..Len(diff) : diff[i] # 0})
                      total_pixels == Len(diff)
                  IN  Ok([max_difference |-> SetMax({diff[i] : i \in 1..Len(diff)}),
                          mean_difference |-> <<SeqSum(diff), total_pixels>>,
                          changed_pixels |-> changed_pixels,
                          total_pixels |-> total_pixels,
                          change_percentage |-> <<changed_pixels * 100, total_pixels>>])

(***************************************************************************)
(* Orchestrator  (src/hybrid_model.py)                                     *)
(***************************************************************************)
TempCover == <<"temp", "cover", "image">>                \* temp_cover_image.png

\* os.path.splitext(image_path)[0] + "_hybrid_encrypted.png"
HybridPath(image_path) == image_path \o <<"hybrid", "encrypted">>

Failure(e) ==
    [success |-> FALSE, error |-> e, encrypted_image_path |-> None,
     hill_encrypted |-> <<>>, sdes_encrypted_binary |-> <<>>,
     keys |-> None, cover_image |-> None, hidden_bits |-> 0, image_capacity |-> 0]

Success(path, hill_encrypted, binary, keys, cover, hidden_bits, total_bits) ==
    [success |-> TRUE, error |-> None, encrypted_image_path |-> path,
     hill_encrypted |-> hill_encrypted, sdes_encrypted_binary |-> binary,
     keys |-> keys, cover_image |-> cover, hidden_bits |-> hidden_bits,
     image_capacity |-> total_bits]

\* `generated` is what generate_keys() returns in this call; it is consulted
\* only for a key the caller did not supply.
hybrid_encrypt(fs, plaintext, hill_key_arg, sdes_key_arg, image_path_arg, output_image_path_arg, generated) ==
    LET hill_key == IF hill_key_arg = None THEN generated.hill_key ELSE hill_key_arg
        sdes_key == IF sdes_key_arg = None THEN generated.sdes_key ELSE sdes_key_arg
        hill_encrypted == hill_encrypt(plaintext, hill_key)
    IN  IF ~hill_encrypted.ok
        THEN [res |-> Failure(hill_encrypted.err), files |-> fs]
        ELSE
        LET sdes_encrypted_binary == encrypt_text(hill_encrypted.val, sdes_key)
        IN  IF ~sdes_encrypted_binary.ok
            THEN [res |-> Failure(sdes_encrypted_binary.err), files |-> fs]
            ELSE
            LET image_path == IF image_path_arg = None THEN TempCover
                              ELSE image_path_arg
                fs1 == IF image_path_arg = None
                       THEN create_sample_image(fs, SampleWidth, SampleHeight, TempCover)
                       ELSE fs
                capacity == get_image_capacity(fs1, image_path)
            IN  IF ~capacity.ok
                THEN [res |-> Failure(capacity.err), files |-> fs1]
                ELSE IF Len(sdes_encrypted_binary.val) > capacity.val[2]
                THEN [res |-> Failure("ValueError: Message too large for image"),
                      files |-> fs1]
                ELSE
                LET output_image_path ==
                        IF output_image_path_arg = None THEN HybridPath(image_path)
                        ELSE output_image_path_arg
                    hidden == hide_message(fs1, image_path,
                                  sdes_encrypted_binary.val, output_image_path)
                IN  IF ~hidden.res.ok
                    THEN [res |-> Failure(hidden.res.err), files |-> hidden.files]
                    ELSE [res |-> Success(hidden.res.val[1], hill_encrypted.val,
                                      sdes_encrypted_binary.val,
                                      [hill_key |-> hill_key, sdes_key |-> sdes_key],
                                      image_path, hidden.res.val[2], capacity.val[2]),
                          files |-> hidden.files]

DecFailure(e) == [success |-> FALSE, error |-> e, decrypted_text |-> <<>>]
DecSuccess(t) == [success |-> TRUE, error |-> None, decrypted_text |-> t]

hybrid_decrypt_sdes_error_lost(fs, encrypted_image_path, hill_key, sdes_key) ==
    LET sdes_encrypted_binary == extract_message(fs, encrypted_image_path)
    IN  IF ~sdes_encrypted_binary.ok THEN DecFailure(sdes_encrypted_binary.err)
        ELSE IF sdes_encrypted_binary.val = <<>>
        THEN DecFailure("ValueError: No hidden message found in the image")
        ELSE LET hill_encrypted == decrypt_text(sdes_encrypted_binary.val, sdes_key)
             IN  IF ~hill_encrypted.ok THEN DecSuccess(<<>>)
                 ELSE LET original_text == hill_decrypt(hill_encrypted.val, hill_key)
                      IN  IF ~original_text.ok THEN DecFailure(original_text.err)
                          ELSE DecSuccess(original_text.val)

hybrid_decrypt(fs, encrypted_image_path, hill_key, sdes_key) ==
    LET sdes_encrypted_binary == extract_message(fs, encrypted_image_path)
    IN  IF ~sdes_encrypted_binary.ok THEN DecFailure(sdes_encrypted_binary.err)
        ELSE IF sdes_encrypted_binary.val = <<>>
        THEN DecFailure("ValueError: No hidden message found in the image")
        ELSE LET hill_encrypted == decrypt_text(sdes_encrypted_binary.val, sdes_key)
             IN  IF ~hill_encrypted.ok THEN DecFailure(hill_encrypted.err)
                 ELSE LET original_text == hill_decrypt(hill_encrypted.val, hill_key)
                      IN  IF ~original_text.ok THEN DecFailure(original_text.err)
                          ELSE DecSuccess(original_text.val)

(***************************************************************************)
(* Inputs of the model.                                                    *)
(***************************************************************************)
MaxTextLen == 3

\* 'A', 'X', 'h', ' ', '1'
TextChars == {65, 88, 104, 32, 49}
Texts == SeqsUpTo(TextChars, MaxTextLen)

Matrix(a, b, c, d) == << <<a, b>>, <<c, d>> >>

\* every 2x2 matrix with entries in [0, 26)
AllKeyMatrices == [1..2 -> [1..2 -> 0..(alphabet_size - 1)]]

\* the matrices over a few entries, with the keys of the tests
KeyEntries == {0, 1, 3, 13, 25}
KeyMatrices ==
    [1..2 -> [1..2 -> KeyEntries]] \cup {Matrix(3, 2, 5, 7), Matrix(2, 4, 1, 2)}

\* the result slot of an operation that has not been called
NotCalled == [ok |-> FALSE, val |-> <<>>, err |-> "not called"]
Called(r) == r.err # "not called"

IdleHill == [key |-> Matrix(1, 0, 0, 1), text |-> <<>>, valid |-> NotCalled,
             enc |-> NotCalled, dec_of |-> "none", dec_in |-> <<>>,
             dec |-> NotCalled]
IdleSdes == [key |-> StrKey(<<>>), text |-> <<>>, enc |-> NotCalled,
             dec_in |-> <<>>, dec |-> NotCalled]
IdleStego == [pc |-> "idle", cover |-> Img("RGB", 0, 0, <<>>), message |-> <<>>,
              hide |-> NotCalled, extract_path |-> None, extract |-> NotCalled]
IdleHybrid == [pc |-> "idle", plaintext |-> <<>>, args |-> None,
               before |-> [q \in {} |-> None], enc |-> Failure("not called"),
               dec_path |-> None, dec_keys |-> None,
               dec |-> DecFailure("not called")]
NoFiles == [q \in {} |-> None]

(***************************************************************************)
(* Hill cipher: one key and one text, validated, encrypted and decrypted.  *)
(***************************************************************************)
HillValidate ==
    /\ ~Called(hill.valid)
    /\ hill' = [hill EXCEPT !.valid = Ok(validate_key_matrix(hill.key))]
    /\ UNCHANGED <<sdes, files, stego, hybrid>>

HillEncrypt ==
    /\ ~Called(hill.enc)
    /\ hill' = [hill EXCEPT !.enc = hill_encrypt(hill.text, hill.key)]
    /\ UNCHANGED <<sdes, files, stego, hybrid>>

\* decrypt either the ciphertext just produced or the input text itself
HillDecrypt ==
    /\ ~Called(hill.dec)
    /\ \E of \in {"text", "cipher"} :
          /\ of = "cipher" => hill.enc.ok
          /\ LET in == IF of = "cipher" THEN hill.enc.val ELSE hill.text
             IN  hill' = [hill EXCEPT !.dec_of = of, !.dec_in = in,
                                      !.dec = hill_decrypt(in, hill.key)]
    /\ UNCHANGED <<sdes, files, stego, hybrid>>

\* "HE" and "HELLO WORLD"
ScenarioTexts == { <<72, 69>>, <<72, 69, 76, 76, 79, 32, 87, 79, 82, 76, 68>> }

InitHill ==
    /\ hill \in [key : KeyMatrices, text : Texts \cup ScenarioTexts,
                 valid : {NotCalled},
                 enc : {NotCalled}, dec_of : {"none"}, dec_in : {<<>>},
                 dec : {NotCalled}]
    /\ sdes = IdleSdes
    /\ files = NoFiles
    /\ stego = IdleStego
    /\ hybrid = IdleHybrid

NextHill == HillEncrypt \/ HillDecrypt

SpecHill == InitHill /\ [][NextHill]_vars

\* every key matrix over [0, 26), validated
InitHillKeys ==
    /\ hill \in [key : AllKeyMatrices, text : {<<>>}, valid : {NotCalled},
                 enc : {NotCalled}, dec_of : {"none"}, dec_in : {<<>>},
                 dec : {NotCalled}]
    /\ sdes = IdleSdes
    /\ files = NoFiles
    /\ stego = IdleStego
    /\ hybrid = IdleHybrid

NextHillKeys == HillValidate

SpecHillKeys == InitHillKeys /\ [][NextHillKeys]_vars


(***************************************************************************)
(* SDES: one key and one text, encrypted to a binary string and decrypted. *)
(***************************************************************************)
BitString(bits) == [i \in 1..Len(bits) |-> 48 + bits[i]]

\* the 1024 keys "0000000000" .. "1111111111"
AllSdesKeys == {StrKey(BitString(b)) : b \in [1..10 -> {0, 1}]}

\* "1010000010" as a string and as a list, and keys generate_keys rejects:
\* 9 characters, 11 characters, a character '2', a 9-element list
SdesKeySamples ==
    { StrKey(<<49, 48, 49, 48, 48, 48, 48, 48, 49, 48>>),
      ListKey(<<1, 0, 1, 0, 0, 0, 0, 0, 1, 0>>),
      StrKey(<<49, 48, 49, 48, 48, 48, 48, 48, 49>>),
      StrKey(<<49, 48, 49, 48, 48, 48, 48, 48, 49, 48, 49>>),
      StrKey(<<49, 48, 49, 48, 48, 48, 48, 48, 49, 50>>),
      ListKey(<<1, 0, 1, 0, 0, 0, 0, 0, 1>>) }

\* every one-character text of an 8-bit character, and 32 of them spread
\* over the 8-bit range for the product with every key
OneCharTexts == {<<c>> : c \in 0..255}
SpreadCharTexts == {<<(37 * k) % 256>> : k \in 0..31}

SdesEncryptText ==
    /\ ~Called(sdes.enc)
    /\ sdes' = [sdes EXCEPT !.enc = encrypt_text(sdes.text, sdes.key)]
    /\ UNCHANGED <<hill, files, stego, hybrid>>

\* decrypt the binary string just produced
SdesDecryptText ==
    /\ sdes.enc.ok
    /\ ~Called(sdes.dec)
    /\ sdes' = [sdes EXCEPT !.dec_in = sdes.enc.val,
                            !.dec = decrypt_text(sdes.enc.val, sdes.key)]
    /\ UNCHANGED <<hill, files, stego, hybrid>>

InitSdes ==
    /\ hill = IdleHill
    /\ \/ sdes \in [key : AllSdesKeys, text : SpreadCharTexts, enc : {NotCalled},
                    dec_in : {<<>>}, dec : {NotCalled}]
       \/ sdes \in [key : SdesKeySamples, text : Texts \cup OneCharTexts,
                    enc : {NotCalled}, dec_in : {<<>>}, dec : {NotCalled}]
    /\ files = NoFiles
    /\ stego = IdleStego
    /\ hybrid = IdleHybrid

NextSdes == SdesEncryptText \/ SdesDecryptText

SpecSdes == InitSdes /\ [][NextSdes]_vars

(***************************************************************************)
(* Hill cipher: texts with letters outside ASCII encrypted.                *)
(***************************************************************************)
\* 'A', 'h', ' ', '1', U+00E9 (e acute), U+00DF (sharp s), U+00F7 (division sign)
NormChars == {65, 104, 32, 49, 233, 223, 247}
NormTexts == SeqsUpTo(NormChars, MaxTextLen)
NormKeys == {Matrix(3, 2, 5, 7), Matrix(0, 1, 1, 0), Matrix(25, 1, 2, 25),
             Matrix(2, 4, 1, 2)}

InitNormalize ==
    /\ hill \in [key : NormKeys, text : NormTexts, valid : {NotCalled},
                 enc : {NotCalled}, dec_of : {"none"}, dec_in : {<<>>},
                 dec : {NotCalled}]
    /\ sdes = IdleSdes
    /\ files = NoFiles
    /\ stego = IdleStego
    /\ hybrid = IdleHybrid

NextNormalize == HillEncrypt

SpecNormalize == InitNormalize /\ [][NextNormalize]_vars

(***************************************************************************)
(* Hill cipher: matrix_mod_inverse of a key matrix, or mod_inverse of a    *)
(* number, called once on its own.  hill = [key, a, op, out].              *)
(***************************************************************************)
MaxNumber == 60

HillOp(op, out) ==
    /\ hill.op = "none"
    /\ hill' = [hill EXCEPT !.op = op, !.out = out]
    /\ UNCHANGED <<sdes, files, stego, hybrid>>

HillMatrixInverse ==
    HillOp("matrix_mod_inverse", matrix_mod_inverse(hill.key, alphabet_size))

HillModInverse == HillOp("mod_inverse", mod_inverse(hill.a, alphabet_size))

InitInverse ==
    /\ \/ hill \in [key : AllKeyMatrices, a : {1}, op : {"none"}, out : {NotCalled}]
       \/ hill \in [key : {Matrix(1, 0, 0, 1)}, a : 0..MaxNumber, op : {"none"},
                    out : {NotCalled}]
    /\ sdes = IdleSdes
    /\ files = NoFiles
    /\ stego = IdleStego
    /\ hybrid = IdleHybrid

NextInverse == HillMatrixInverse \/ HillModInverse

SpecInverse == InitInverse /\ [][NextInverse]_vars

(***************************************************************************)
(* Hill cipher: the rejection loop of generate_random_key.                 *)
(* hill = [pc, rejected, out]: `pc` is "loop" at the head of `while True`  *)
(* and "returned" after the return; `rejected` counts the candidates       *)
(* discarded so far (it stops counting at MaxRejected); `out` is the       *)
(* returned matrix.  The candidate is a local of one iteration and is      *)
(* not kept between iterations.                                            *)
(***************************************************************************)

MaxRejected == 2

\* np.random.randint(0, 26, size=(2, 2)): a matrix over [0, 26); the draws
\* of the model are the matrices over a few entries and the keys of the tests
RandomMatrices == KeyMatrices

\* the loop without its test: whatever is drawn is returned
GenerateIteration_returning_any(matrix) ==
    /\ hill.pc = "loop"
    /\ hill' = [hill EXCEPT !.pc = "returned", !.out = Ok(matrix)]
    /\ UNCHANGED <<sdes, files, stego, hybrid>>

\* one iteration of `while True` with the candidate `matrix`
GenerateIteration(matrix) ==
    /\ hill.pc = "loop"
    /\ IF validate_key_matrix(matrix)
       THEN hill' = [hill EXCEPT !.pc = "returned", !.out = Ok(matrix)]
       ELSE hill' = [hill EXCEPT !.rejected = Min(@ + 1, MaxRejected)]
    /\ UNCHANGED <<sdes, files, stego, hybrid>>

\* an iteration whose candidate passes the test
GenerateAccepted ==
    \E matrix \in RandomMatrices :
        validate_key_matrix(matrix) /\ GenerateIteration(matrix)

\* an iteration whose candidate is discarded
GenerateRejected ==
    \E matrix \in RandomMatrices :
        ~validate_key_matrix(matrix) /\ GenerateIteration(matrix)

InitGenerate ==
    /\ hill = [pc |-> "loop", rejected |-> 0, out |-> NotCalled]
    /\ sdes = IdleSdes
    /\ files = NoFiles
    /\ stego = IdleStego
    /\ hybrid = IdleHybrid

NextGenerate == GenerateAccepted \/ GenerateRejected

SpecGenerate == InitGenerate /\ [][NextGenerate]_vars

\* Fair random sampling: every draw is a valid matrix with probability
\* 157248 / 456976, so a loop that keeps drawing draws one with probability
\* 1.  An accepted iteration is enabled for as long as the loop runs, so
\* weak fairness on it expresses this.
SpecGenerateFair == SpecGenerate /\ WF_vars(GenerateAccepted)

(***************************************************************************)
(* SDES: each operation that takes a key, called once on its own.          *)
(* sdes = [key, text, bits, op, out]: `op` names the operation called and  *)
(* `out` is what it returned or raised.                                    *)
(***************************************************************************)
TestKeyBits == <<1, 0, 1, 0, 0, 0, 0, 0, 1, 0>>

\* the list [1,0,1,0,0,0,0,0,1,0] with the element at position p replaced by v
ListKeyWith(p, v) == ListKey([i \in 1..10 |-> IF i = p THEN v ELSE TestKeyBits[i]])

\* keys beside the 1024 binary strings: the sampled ones, the empty string and
\* list, an 11-element list, a key that is neither a string nor a list, and
\* the 10-element lists holding one element 2 or 3
SdesOtherKeys ==
    SdesKeySamples
        \cup { StrKey(<<>>), ListKey(<<>>), ListKey(TestKeyBits \o <<1>>),
               [type |-> "int", val |-> <<>>] }
        \cup { ListKeyWith(p, v) : p \in 1..10, v \in {2, 3} }

SdesOpTexts == { <<>>, <<65>>, <<104, 105>> }

\* ciphertext bits: none, one block, two blocks, one block and an incomplete one
SdesOpBits ==
    { <<>>, <<0, 1, 1, 1, 0, 0, 1, 0>>,
      <<1, 1, 0, 0, 0, 1, 0, 1, 0, 0, 0, 0, 1, 1, 1, 1>>,
      <<1, 0, 0, 1, 0, 1, 1, 0, 1, 0, 1>> }

SdesOp(op, out) ==
    /\ sdes.op = "none"
    /\ sdes' = [sdes EXCEPT !.op = op, !.out = out]
    /\ UNCHANGED <<hill, files, stego, hybrid>>

SdesGenerateKeys == SdesOp("generate_keys", sdes_generate_keys(sdes.key))
SdesEncrypt == SdesOp("encrypt", sdes_encrypt(sdes.text, sdes.key))
SdesDecrypt == SdesOp("decrypt", sdes_decrypt(sdes.bits, sdes.key))
SdesEncryptTextOp == SdesOp("encrypt_text", encrypt_text(sdes.text, sdes.key))
SdesDecryptTextOp ==
    SdesOp("decrypt_text", decrypt_text(BitString(sdes.bits), sdes.key))

InitSdesOps ==
    /\ hill = IdleHill
    /\ sdes \in [key : AllSdesKeys \cup SdesOtherKeys, text : SdesOpTexts,
                  bits : SdesOpBits, op : {"none"}, out : {NotCalled}]
    /\ files = NoFiles
    /\ stego = IdleStego
    /\ hybrid = IdleHybrid

NextSdesOps ==
    \/ SdesGenerateKeys
    \/ SdesEncrypt
    \/ SdesDecrypt
    \/ SdesEncryptTextOp
    \/ SdesDecryptTextOp

SpecSdesOps == InitSdesOps /\ [][NextSdesOps]_vars


(***************************************************************************)
(* SDES: one 8-bit block through encrypt_block and back through            *)
(* decrypt_block, under the subkeys of a key or under a pair of subkeys    *)
(* passed directly.  sdes = [key, keys, block, enc, dec].                  *)
(***************************************************************************)
\* the 256 blocks of 8 bits
AllBlocks == {int_to_bits(n, 8) : n \in 0..255}

\* pairs of subkeys that are passed to encrypt_block directly
SubkeyPairs ==
    { <<int_to_bits(a, 8), int_to_bits(b, 8)>> :
        a \in {0, 90, 255}, b \in {0, 165, 255} }

BlockGenerateKeys ==
    /\ ~Called(sdes.keys)
    /\ sdes' = [sdes EXCEPT !.keys = sdes_generate_keys(sdes.key)]
    /\ UNCHANGED <<hill, files, stego, hybrid>>

BlockEncrypt ==
    /\ sdes.keys.ok
    /\ ~Called(sdes.enc)
    /\ \E block \in AllBlocks :
          sdes' = [sdes EXCEPT
                      !.block = block,
                      !.enc = Ok(encrypt_block(block, sdes.keys.val[1],
                                               sdes.keys.val[2]))]
    /\ UNCHANGED <<hill, files, stego, hybrid>>

BlockDecrypt ==
    /\ sdes.enc.ok
    /\ ~Called(sdes.dec)
    /\ sdes' = [sdes EXCEPT
                    !.dec = Ok(decrypt_block(sdes.enc.val, sdes.keys.val[1],
                                             sdes.keys.val[2]))]
    /\ UNCHANGED <<hill, files, stego, hybrid>>

InitBlock ==
    /\ hill = IdleHill
    /\ \/ sdes \in [key : AllSdesKeys, keys : {NotCalled}, block : {<<>>},
                    enc : {NotCalled}, dec : {NotCalled}]
       \/ sdes \in [key : {StrKey(<<>>)}, keys : {Ok(p) : p \in SubkeyPairs},
                    block : {<<>>}, enc : {NotCalled}, dec : {NotCalled}]
    /\ files = NoFiles
    /\ stego = IdleStego
    /\ hybrid = IdleHybrid

NextBlock == BlockGenerateKeys \/ BlockEncrypt \/ BlockDecrypt

SpecBlock == InitBlock /\ [][NextBlock]_vars

(***************************************************************************)
(* SDES: the round function applied to one 4-bit half and one 8-bit        *)
(* subkey.  sdes = [half, subkey, out].                                    *)
(***************************************************************************)
AllHalves == {int_to_bits(n, 4) : n \in 0..15}

RoundFunction ==
    /\ ~Called(sdes.out)
    /\ sdes' = [sdes EXCEPT !.out = Ok(f_function(sdes.half, sdes.subkey))]
    /\ UNCHANGED <<hill, files, stego, hybrid>>

InitRound ==
    /\ hill = IdleHill
    /\ sdes \in [half : AllHalves, subkey : AllBlocks, out : {NotCalled}]
    /\ files = NoFiles
    /\ stego = IdleStego
    /\ hybrid = IdleHybrid

NextRound == RoundFunction

SpecRound == InitRound /\ [][NextRound]_vars

(***************************************************************************)
(* Steganography: a cover image file, a message hidden in it and a message *)
(* extracted from a file.                                                  *)
(***************************************************************************)
MaxMsgLen == 3

CoverPath == <<"cover">>
OutPath == <<"out">>

\* channel bytes of the covers: all zero, all 255, and two mixed patterns
Patterns == {"zero", "white", "gradient", "noise"}
PatternByte(pattern, i) ==
    IF pattern = "zero" THEN 0
    ELSE IF pattern = "white" THEN 255
    ELSE IF pattern = "gradient" THEN (3 * i) % 256
    ELSE (i * i * 37 + 11 * i + 5) % 256

Cover(mode, w, h, pattern) ==
    Img(mode, w, h, [i \in 1..(w * h * Channels(mode)) |-> PatternByte(pattern, i)])

\* <<width, height>>; with three channels 4x4 holds 48 bytes, 5x5 75, 8x4 96,
\* 8x5 120 and 8x7 168; the last two exceed MaxDim
CoverSizes == {<<4, 4>>, <<5, 5>>, <<8, 4>>, <<8, 5>>, <<8, 7>>,
               <<MaxDim + 1, 3>>, <<3, MaxDim + 2>>}
Modes == {"RGB", "RGBA", "L"}
Covers == {Cover(m, sz[1], sz[2], p) : m \in Modes, sz \in CoverSizes, p \in Patterns}

\* the characters whose bits are the delimiter's bits moved right by `shift`
\* bit positions (zero bits before and after)
ShiftedDelimiter(shift) ==
    bits_to_string([i \in 1..shift |-> 0] \o string_to_binary(delimiter)
                       \o [i \in 1..(8 - shift) |-> 0])

\* '0', 'H', chr(255)
MsgChars == {48, 72, 255}
SpecialMessages ==
    { <<72, 73>>,                               \* "HI"
      delimiter \o <<65>>,                      \* "###END###A"
      <<72>> \o delimiter \o <<73>>,            \* "H###END###I"
      <<35, 35, 35, 69, 78, 68>>,               \* "###END"
      ShiftedDelimiter(4),
      <<72>> \o ShiftedDelimiter(1) }
Messages == SeqsUpTo(MsgChars, MaxMsgLen) \cup SpecialMessages

StegoHide ==
    /\ stego.pc = "start"
    /\ \E output_path \in {None, OutPath, CoverPath} :
          \E r \in {hide_message(files, CoverPath, stego.message, output_path)} :
              /\ files' = r.files
              /\ stego' = [stego EXCEPT !.pc = "hidden", !.hide = r.res]
    /\ UNCHANGED <<hill, sdes, hybrid>>

\* extract from any file that exists: the cover or the stego image
StegoExtract ==
    /\ stego.pc \in {"start", "hidden"}
    /\ \E image_path \in DOMAIN files :
          stego' = [stego EXCEPT !.pc = "extracted",
                                 !.extract_path = image_path,
                                 !.extract = extract_message(files, image_path)]
    /\ UNCHANGED <<hill, sdes, files, hybrid>>

InitStego ==
    /\ hill = IdleHill
    /\ sdes = IdleSdes
    /\ \E cover \in Covers, message \in Messages :
          /\ files = [q \in {CoverPath} |-> cover]
          /\ stego = [pc |-> "start", cover |-> cover, message |-> message,
                      hide |-> NotCalled, extract_path |-> None,
                      extract |-> NotCalled]
    /\ hybrid = IdleHybrid

NextStego == StegoHide \/ StegoExtract

SpecStego == InitStego /\ [][NextStego]_vars

(***************************************************************************)
(* Steganography: the capacity of a cover image is asked for, then a       *)
(* message of max_characters characters, or of one more, is hidden in it.  *)
(* stego = [pc, cover, capacity, message, hide].                           *)
(***************************************************************************)
StegoGetCapacity ==
    /\ stego.pc = "start"
    /\ stego' = [stego EXCEPT !.pc = "measured",
                              !.capacity = get_image_capacity(files, CoverPath)]
    /\ UNCHANGED <<hill, sdes, files, hybrid>>

StegoHideMeasured ==
    /\ stego.pc = "measured"
    /\ stego.capacity.ok
    /\ \E extra \in {0, 1} :
          LET n == stego.capacity.val[1] + extra
              message == [i \in 1..n |-> 72]
          IN  /\ n >= 0
              /\ \E r \in {hide_message(files, CoverPath, message, None)} :
                    /\ files' = r.files
                    /\ stego' = [stego EXCEPT !.pc = "hidden",
                                              !.message = message,
                                              !.hide = r.res]
    /\ UNCHANGED <<hill, sdes, hybrid>>

InitCapacity ==
    /\ hill = IdleHill
    /\ sdes = IdleSdes
    /\ \E cover \in Covers :
          /\ files = [q \in {CoverPath} |-> cover]
          /\ stego = [pc |-> "start", cover |-> cover, capacity |-> NotCalled,
                      message |-> <<>>, hide |-> NotCalled]
    /\ hybrid = IdleHybrid

NextCapacity == StegoGetCapacity \/ StegoHideMeasured

SpecCapacity == InitCapacity /\ [][NextCapacity]_vars


(***************************************************************************)
(* Steganography: a message is hidden in a cover image, then the cover and *)
(* the stego image are compared.  stego = [pc, cover, message, hide,       *)
(* compare].                                                               *)
(***************************************************************************)
StegoCompare ==
    /\ stego.pc = "hidden"
    /\ stego.hide.ok
    /\ stego' = [stego EXCEPT
                     !.pc = "compared",
                     !.compare = compare_images(files, CoverPath, stego.hide.val[1])]
    /\ UNCHANGED <<hill, sdes, files, hybrid>>

InitCompare ==
    /\ hill = IdleHill
    /\ sdes = IdleSdes
    /\ \E cover \in Covers, message \in Messages :
          /\ files = [q \in {CoverPath} |-> cover]
          /\ stego = [pc |-> "start", cover |-> cover, message |-> message,
                      hide |-> NotCalled, compare |-> NotCalled]
    /\ hybrid = IdleHybrid

NextCompare == StegoHide \/ StegoCompare

SpecCompare == InitCompare /\ [][NextCompare]_vars

(***************************************************************************)
(* Orchestrator: one plaintext encrypted into an image, then an image      *)
(* decrypted.                                                              *)
(***************************************************************************)
\* "", "1 ", "A", "hi", "h1X ", "hAX", "AXhi"
HybridTexts == { <<>>, <<49, 32>>, <<65>>, <<104, 105>>, <<104, 49, 88, 32>>,
                 <<104, 65, 88>>, <<65, 88, 104, 105>> }

TestHillKey == Matrix(3, 2, 5, 7)
TestSdesKey == StrKey(<<49, 48, 49, 48, 48, 48, 48, 48, 49, 48>>)

\* keys a caller supplies: none, the keys of the tests, an invalid one, and
\* a Hill key with an entry above 25 and an SDES key given as a list
SuppliedHillKeys == {None, TestHillKey, Matrix(2, 4, 1, 2), Matrix(3, 2, 5, 33)}
SuppliedSdesKeys == {None, TestSdesKey,
                     StrKey(<<49, 48, 49, 48, 48, 48, 48, 48, 49>>),
                     ListKey(TestKeyBits)}

\* values generate_keys() may return: generate_random_key of the Hill cipher
\* returns a matrix that passed validate_key_matrix, SDES a 10-bit string
GeneratedKeys ==
    { k \in { [hill_key |-> Matrix(0, 1, 1, 0),
               sdes_key |-> StrKey(BitString([i \in 1..10 |-> 0]))],
              [hill_key |-> Matrix(25, 1, 2, 25),
               sdes_key |-> StrKey(BitString([i \in 1..10 |-> i % 2]))],
              [hill_key |-> Matrix(2, 4, 1, 2),
               sdes_key |-> StrKey(BitString([i \in 1..10 |-> 1]))] } :
          validate_key_matrix(k.hill_key) }

\* generate_keys() is called only when a key is missing
NotGenerated == [hill_key |-> None, sdes_key |-> None]

MissingPath == <<"missing">>

\* keys a caller passes to hybrid_decrypt beside those of an encryption
\* result: the keys of the tests, an invalid Hill key, an invalid SDES key
DecryptKeys ==
    { [hill_key |-> TestHillKey, sdes_key |-> TestSdesKey],
      [hill_key |-> Matrix(2, 4, 1, 2), sdes_key |-> TestSdesKey],
      [hill_key |-> TestHillKey,
       sdes_key |-> StrKey(<<49, 48, 49, 48, 48, 48, 48, 48, 49>>)] }

\* the file system a call starts from: nothing, or a cover image cover.png
HybridCovers ==
    { Cover("RGB", 2, 2, "noise"), Cover("RGB", 5, 5, "zero"),
      Cover("RGB", SampleWidth, SampleHeight, "white"),
      Cover("RGB", MaxDim, 10, "noise"),
      Cover("RGB", MaxDim + 1, 10, "gradient"),
      Cover("RGBA", 9, 8, "noise") }
HybridFileSystems == {NoFiles} \cup {[q \in {CoverPath} |-> c] : c \in HybridCovers}

HybridEncrypt ==
    /\ hybrid.pc = "start"
    /\ \E hill_key \in SuppliedHillKeys, sdes_key \in SuppliedSdesKeys,
          image_path \in {None, CoverPath}, output_image_path \in {None, OutPath} :
      \E generated \in (IF hill_key = None \/ sdes_key = None
                         THEN GeneratedKeys ELSE {NotGenerated}) :
          \E r \in {hybrid_encrypt(files, hybrid.plaintext, hill_key, sdes_key,
                                  image_path, output_image_path, generated)} :
              /\ files' = r.files
              /\ hybrid' = [hybrid EXCEPT
                               !.pc = "encrypted",
                               !.args = [hill_key |-> hill_key,
                                         sdes_key |-> sdes_key,
                                         image_path |-> image_path,
                                         output_image_path |-> output_image_path,
                                         generated |-> generated],
                               !.before = files,
                               !.enc = r.res]
    /\ UNCHANGED <<hill, sdes, stego>>

\* decrypt an image file, or a path without a file: with the keys of the
\* encryption result when there is one, or with keys of the caller's
HybridDecrypt ==
    /\ hybrid.pc = "encrypted"
    /\ \E path \in (DOMAIN files) \cup {MissingPath},
          keys \in DecryptKeys \cup
                     (IF hybrid.enc.success THEN {hybrid.enc.keys} ELSE {}) :
              hybrid' = [hybrid EXCEPT
                            !.pc = "decrypted",
                            !.dec_path = path,
                            !.dec_keys = keys,
                            !.dec = hybrid_decrypt(files, path, keys.hill_key,
                                                   keys.sdes_key)]
    /\ UNCHANGED <<hill, sdes, files, stego>>

InitHybrid ==
    /\ hill = IdleHill
    /\ sdes = IdleSdes
    /\ stego = IdleStego
    /\ files \in HybridFileSystems
    /\ hybrid \in [pc : {"start"}, plaintext : HybridTexts, args : {None},
                   before : {NoFiles},
                   enc : {Failure("not called")}, dec_path : {None},
                   dec_keys : {None}, dec : {DecFailure("not called")}]

NextHybrid == HybridEncrypt \/ HybridDecrypt

Spec == InitHybrid /\ [][NextHybrid]_vars

(***************************************************************************)
(* Orchestrator: several hybrid_encrypt calls one after the other on the   *)
(* same file system, then the result of one of them decrypted.             *)
(* hybrid = [calls, dec_of, dec]: `calls` holds the plaintext and the      *)
(* outcome of each call, `dec_of` the number of the call whose result was  *)
(* decrypted.                                                              *)
(***************************************************************************)
MaxCalls == 2

\* "hi", "AX", "A"
CallTexts == { <<104, 105>>, <<65, 88>>, <<65>> }
CallHillKeys == { TestHillKey, Matrix(0, 1, 1, 0) }

\* the output path the caller of the n-th call supplies: out_1.png, out_2.png, ...
CallOutPath(n) == <<"out", ToString(n)>>

CallEncrypt ==
    /\ hybrid.dec_of = 0
    /\ Len(hybrid.calls) < MaxCalls
    /\ \E plaintext \in CallTexts, hill_key \in CallHillKeys,
          image_path \in {None} \cup DOMAIN hybrid.before,
          output_image_path \in {None, CallOutPath(Len(hybrid.calls) + 1)} :
          \E r \in {hybrid_encrypt(files, plaintext, hill_key, TestSdesKey,
                                  image_path, output_image_path, NotGenerated)} :
              /\ files' = r.files
              /\ hybrid' = [hybrid EXCEPT
                               !.calls = Append(@, [plaintext |-> plaintext,
                                                    enc |-> r.res])]
    /\ UNCHANGED <<hill, sdes, stego>>

\* decrypt the stego image of a successful call with the keys of that call
CallDecrypt ==
    /\ hybrid.dec_of = 0
    /\ \E n \in 1..Len(hybrid.calls) :
          /\ hybrid.calls[n].enc.success
          /\ hybrid' = [hybrid EXCEPT
                           !.dec_of = n,
                           !.dec = hybrid_decrypt(files,
                                       hybrid.calls[n].enc.encrypted_image_path,
                                       hybrid.calls[n].enc.keys.hill_key,
                                       hybrid.calls[n].enc.keys.sdes_key)]
    /\ UNCHANGED <<hill, sdes, files, stego>>

InitCalls ==
    /\ hill = IdleHill
    /\ sdes = IdleSdes
    /\ stego = IdleStego
    /\ files \in {NoFiles, [q \in {CoverPath} |-> Cover("RGB", 8, 9, "noise")]}
    /\ hybrid = [calls |-> <<>>, before |-> files, dec_of |-> 0,
                 dec |-> DecFailure("not called")]

NextCalls == CallEncrypt \/ CallDecrypt

SpecCalls == InitCalls /\ [][NextCalls]_vars

(***************************************************************************)
(* Properties of the Hill cipher.                                          *)
(***************************************************************************)
\* a and b have no common divisor other than 1
Coprime(a, b) == \A k \in 2..b : ~(a % k = 0 /\ b % k = 0)

KeyIsInvertible(m) ==
    Coprime((m[1][1] * m[2][2] - m[1][2] * m[2][1]) % 26, 26)

LettersOnly(t) == \A i \in 1..Len(t) : t[i] \in 65..90 \/ t[i] \in 97..122

UpperCased(t) == [i \in 1..Len(t) |-> IF t[i] \in 97..122 THEN t[i] - 32 ELSE t[i]]

C9_ValidateIffCoprime ==
    Called(hill.valid) =>
        /\ hill.valid.val = KeyIsInvertible(hill.key)
        /\ hill.key = Matrix(3, 2, 5, 7) => hill.valid.val
        /\ hill.key = Matrix(2, 4, 1, 2) => ~hill.valid.val

\* a rejected key whose determinant is odd: 13
C9_Witness ==
    /\ Called(hill.valid)
    /\ hill.key = Matrix(13, 0, 0, 1)
    /\ ~hill.valid.val

\* C10: encrypt and decrypt with a key that is not invertible mod 26 fail with
\* the invalid-key error and return no text, whatever the input text.
C10_InvalidKeyFails ==
    ~KeyIsInvertible(hill.key) =>
        /\ Called(hill.enc) =>
              /\ ~hill.enc.ok
              /\ hill.enc.val = <<>>
              /\ hill.enc.err = "ValueError: key matrix is not valid"
        /\ Called(hill.dec) =>
              /\ ~hill.dec.ok
              /\ hill.dec.val = <<>>
              /\ hill.dec.err = "ValueError: key matrix is not valid"

\* a letter-free text under the singular key of the tests, both operations called
C10_Witness ==
    /\ hill.key = Matrix(2, 4, 1, 2)
    /\ hill.text = <<32, 49>>
    /\ Called(hill.enc) /\ ~hill.enc.ok
    /\ Called(hill.dec) /\ ~hill.dec.ok

(***************************************************************************)
(* Properties of SDES.                                                     *)
(***************************************************************************)
IsTenBitString(key) ==
    /\ key.type = "str"
    /\ Len(key.val) = 10
    /\ \A i \in 1..10 : key.val[i] \in {48, 49}

IsTenBinaryDigits(key) ==
    \/ IsTenBitString(key)
    \/ /\ key.type = "list"
       /\ Len(key.val) = 10
       /\ \A i \in 1..10 : key.val[i] \in {0, 1}

\* the errors generate_keys raises for a key
InvalidKeyErrors ==
    { "ValueError: key must be a 10-bit binary string",
      "ValueError: key must be 10 bits long",
      "ValueError: key must be a string or list" }

\* C11: generate_keys, encrypt, decrypt, encrypt_text and decrypt_text fail
\* with an invalid-key error, and return nothing, whenever the key is not
\* exactly 10 binary digits (string or list).
C11_InvalidKeyRejected ==
    (sdes.op # "none" /\ ~IsTenBinaryDigits(sdes.key)) =>
        (~sdes.out.ok /\ sdes.out.err \in InvalidKeyErrors)

\* the same for the keys given as strings, for which the code does test
\* every character
C11_InvalidStringKeyRejected ==
    (sdes.op # "none" /\ sdes.key.type = "str" /\ ~IsTenBitString(sdes.key)) =>
        (~sdes.out.ok /\ sdes.out.err \in InvalidKeyErrors)

\* C20 (claim side): the tables of the claim, written out
ClaimP10 == <<3, 5, 2, 7, 4, 10, 1, 9, 8, 6>>
ClaimP8 == <<6, 3, 7, 4, 8, 5, 10, 9>>
Select(bits, table) == [i \in 1..Len(table) |-> bits[table[i]]]
Rotl(half, n) == [i \in 1..5 |-> half[((i - 1 + n) % 5) + 1]]
ClaimK(key_bits, n) ==
    LET p == Select(key_bits, ClaimP10)
        L == SubSeq(p, 1, 5)
        R == SubSeq(p, 6, 10)
    IN  Select(Rotl(L, n) \o Rotl(R, n), ClaimP8)

\* C20: for every 10-bit key, generate_keys returns K1 = P8(rotl(L,1) ++
\* rotl(R,1)) and K2 = P8(rotl(L,3) ++ rotl(R,3)), 8 bits each, (L,R) being
\* the halves of P10(key); key "1010000010" gives 10100100 and 01000011.
C20_KeySchedule ==
    (sdes.op = "generate_keys" /\ IsTenBinaryDigits(sdes.key)) =>
        LET key_bits == IF sdes.key.type = "str"
                        THEN [i \in 1..10 |-> sdes.key.val[i] - 48]
                        ELSE sdes.key.val
        IN  /\ sdes.out.ok
            /\ sdes.out.val = <<ClaimK(key_bits, 1), ClaimK(key_bits, 3)>>
            /\ Len(sdes.out.val[1]) = 8 /\ Len(sdes.out.val[2]) = 8
            /\ key_bits = TestKeyBits =>
                   sdes.out.val = << <<1, 0, 1, 0, 0, 1, 0, 0>>,
                                     <<0, 1, 0, 0, 0, 0, 1, 1>> >>

\* the subkeys of "1010000010" have been generated
C20_Witness ==
    /\ sdes.op = "generate_keys"
    /\ sdes.key = StrKey(BitString(TestKeyBits))
    /\ sdes.out.ok
    /\ sdes.out.val[1] = <<1, 0, 1, 0, 0, 1, 0, 0>>

(***************************************************************************)
(* Properties of the steganography.                                        *)
(***************************************************************************)
\* number of bits of message + delimiter, 8 per character
PayloadBits(message) == 8 * (Len(message) + 9)

\* the bits of message + delimiter, most significant bit of each character first
PayloadBit(message, i) ==
    LET text == message \o <<35, 35, 35, 69, 78, 68, 35, 35, 35>>
        c == text[((i - 1) \div 8) + 1]
    IN  (c \div Pow2(7 - ((i - 1) % 8))) % 2

\* the channel bytes hide_message has for the cover: after the downsizing and
\* on the RGB form
ChannelBytes(cover) == Len(LoadPixels(cover).px)

HideSucceeded == Called(stego.hide) /\ stego.hide.ok
HideFailed == Called(stego.hide) /\ ~stego.hide.ok
StegoImage == files[stego.hide.val[1]]

ExtractedFromStego ==
    /\ stego.pc = "extracted"
    /\ HideSucceeded
    /\ stego.extract_path = stego.hide.val[1]

\* the LSB stream of an image (RGB form) holds the delimiter's bits nowhere
NoDelimiterIn(img) ==
    LET px == convert_rgb(img).px
    IN  \A e \in 72..Len(px) :
            \E j \in 1..72 : px[e - 72 + j] % 2 # PayloadBit(<<>>, j)

\* C2 (as claimed): for every cover and every message with
\* 8*(len(message)+9) <= channel bytes, extract_message(hide_message(image,
\* message)) returns exactly message, also when the message's bits contain
\* the delimiter pattern.
C2_EmbedRoundTrip ==
    (ExtractedFromStego /\ PayloadBits(stego.message) <= ChannelBytes(stego.cover))
        => (stego.extract.ok /\ stego.extract.val = stego.message)

\* C3 (as claimed): extract_message on an image whose LSB stream never
\* contains the delimiter returns the empty string and raises no error.
C3_NoDelimiterGivesEmpty ==
    (stego.pc = "extracted" /\ NoDelimiterIn(files[stego.extract_path]))
        => (stego.extract.ok /\ stego.extract.val = <<>>)

\* C4: hide_message succeeds whenever the bit length of message + delimiter is
\* at most the number of channel bytes (also when equal) and fails with the
\* capacity error whenever it is greater; on success the whole payload is in
\* the LSBs of the stego image, never a truncated one.
C4_CapacityBoundary ==
    Called(stego.hide) =>
        LET n == PayloadBits(stego.message)
        IN  /\ n <= ChannelBytes(stego.cover) =>
                  /\ stego.hide.ok
                  /\ stego.hide.val[2] = n
                  /\ Len(StegoImage.px) >= n
                  /\ \A i \in 1..n :
                        StegoImage.px[i] % 2 = PayloadBit(stego.message, i)
            /\ n > ChannelBytes(stego.cover) =>
                  /\ ~stego.hide.ok
                  /\ stego.hide.err =
                       "Exception: Error hiding message: Message too large for image"

\* a 3-character message in an 8x4 RGB cover: 96 bits in 96 channel bytes
C4_Witness ==
    /\ HideSucceeded
    /\ stego.cover.mode = "RGB" /\ stego.cover.w = 8 /\ stego.cover.h = 4
    /\ Len(stego.message) = 3
    /\ PayloadBits(stego.message) = ChannelBytes(stego.cover)

\* C5: when message + delimiter does not fit, hide_message raises, no output
\* file is written and the cover file is left as it was; "HI" in a 4x4x3 image
\* (48 channel bytes, 88 bits needed) is such a case.
C5_FailedHideWritesNothing ==
    /\ (Called(stego.hide) /\ PayloadBits(stego.message) > ChannelBytes(stego.cover))
          => /\ ~stego.hide.ok
             /\ DOMAIN files = {CoverPath}
             /\ files[CoverPath] = stego.cover
    /\ (/\ Called(stego.hide)
        /\ stego.message = <<72, 73>>
        /\ stego.cover.mode = "RGB" /\ stego.cover.w = 4 /\ stego.cover.h = 4)
          => (~stego.hide.ok /\ PayloadBits(stego.message) = 88
                /\ ChannelBytes(stego.cover) = 48)

\* "HI" refused by the all-zero 4x4 RGB cover
C5_Witness ==
    /\ HideFailed
    /\ stego.message = <<72, 73>>
    /\ stego.cover = Cover("RGB", 4, 4, "zero")
    /\ files = [q \in {CoverPath} |-> stego.cover]

SameShape(a, b) == a.w = b.w /\ a.h = b.h /\ Channels(a.mode) = Channels(b.mode)

FramePreserved(cover, image, n) ==
    /\ SameShape(cover, image)
    /\ Len(image.px) = Len(cover.px)
    /\ \A i \in 1..Len(cover.px) : image.px[i] \div 2 = cover.px[i] \div 2
    /\ \A i \in (n + 1)..Len(cover.px) : image.px[i] = cover.px[i]

\* C6 (as claimed): for every cover hide_message accepts, oversized ones
\* included, the stego image has the cover's shape, the upper 7 bits of every
\* channel byte are the cover's, and every channel byte at a flattened index
\* >= N = 8*(len(message)+9) is the cover's.
C6_FrameEveryCover ==
    HideSucceeded => FramePreserved(stego.cover, StegoImage, PayloadBits(stego.message))

\* C6 (amended): the same for every RGB cover that is not larger than the
\* size limit in either dimension.
C6_FrameRgbWithinLimit ==
    (/\ HideSucceeded
     /\ stego.cover.mode = "RGB"
     /\ stego.cover.w <= MaxDim /\ stego.cover.h <= MaxDim)
        => FramePreserved(stego.cover, StegoImage, PayloadBits(stego.message))

\* a one-character message in the 8x5 RGB cover of mixed bytes: 80 of its
\* 120 channel bytes carry the payload
C6_Witness ==
    /\ HideSucceeded
    /\ stego.cover = Cover("RGB", 8, 5, "noise")
    /\ Len(stego.message) = 1
    /\ StegoImage # stego.cover

\* C14 (as claimed): for every image the total_bits of get_image_capacity is
\* the number of channel bytes hide_message has for it (after the downsizing,
\* on the RGB form), max_characters = (total_bits - 72) div 8, a message of
\* max_characters characters embeds and one of max_characters + 1 is rejected.
C14_CapacityMatchesEmbedding ==
    /\ Called(stego.capacity) =>
          /\ stego.capacity.ok
          /\ stego.capacity.val[2] = ChannelBytes(stego.cover)
          /\ stego.capacity.val[1] = (stego.capacity.val[2] - 72) \div 8
    /\ Called(stego.hide) =>
          /\ Len(stego.message) = stego.capacity.val[1] => stego.hide.ok
          /\ Len(stego.message) = stego.capacity.val[1] + 1 => ~stego.hide.ok

\* the same for the covers hide_message takes as they are: RGB, within the
\* size limit
C14_CapacityOfRgbWithinLimit ==
    (stego.cover.mode = "RGB" /\ ~Oversized(stego.cover)) =>
        C14_CapacityMatchesEmbedding

(***************************************************************************)
(* Properties of the orchestrator.                                         *)
(***************************************************************************)
\* the upper-cased letters of a text, with one 'X' when their number is odd
PaddedLetters(t) ==
    LET letters == UpperCased(SelectSeq(t, LAMBDA c : c \in 65..90 \/ c \in 97..122))
    IN  IF Len(letters) % 2 = 1 THEN Append(letters, 88) ELSE letters

\* the image and the keys of the successful encryption were decrypted
DecryptedOwnResult ==
    /\ hybrid.pc = "decrypted"
    /\ hybrid.enc.success
    /\ hybrid.dec_path = hybrid.enc.encrypted_image_path
    /\ hybrid.dec_keys = hybrid.enc.keys

\* C1 (as claimed): whenever hybrid_encrypt(T) succeeds, hybrid_decrypt on the
\* returned stego image with the keys of the result succeeds too and its
\* decrypted_text is the upper-cased letters of T with one 'X' appended when
\* their number is odd, also for a plaintext without letters.
C1_PipelineRoundTrip ==
    DecryptedOwnResult =>
        /\ hybrid.dec.success
        /\ hybrid.dec.decrypted_text = PaddedLetters(hybrid.plaintext)

\* the keys hybrid_encrypt works with: the caller's, or the generated ones
UsedHillKey ==
    IF hybrid.args.hill_key = None THEN hybrid.args.generated.hill_key
    ELSE hybrid.args.hill_key
UsedSdesKey ==
    IF hybrid.args.sdes_key = None THEN hybrid.args.generated.sdes_key
    ELSE hybrid.args.sdes_key

EncCalled == hybrid.pc \in {"encrypted", "decrypted"}
DecCalled == hybrid.pc = "decrypted"

\* what the two ciphers return or raise for the inputs of the call
Stage1 == hill_encrypt(hybrid.plaintext, UsedHillKey)
Stage2 == encrypt_text(Stage1.val, UsedSdesKey)

\* the cover image of the call: the caller's file, or the placeholder
CoverGiven == hybrid.args.image_path # None
CoverReadable == CoverGiven => hybrid.args.image_path \in DOMAIN hybrid.before
CoverImage ==
    IF CoverGiven THEN hybrid.before[hybrid.args.image_path] ELSE files[TempCover]

EncFailedWith(e) == ~hybrid.enc.success /\ hybrid.enc.error = e
DecFailedWith(e) == ~hybrid.dec.success /\ hybrid.dec.error = e

\* C12: hybrid_encrypt and hybrid_decrypt return an outcome whose success is
\* True or False for every input, and every error of an engine (invalid Hill
\* or SDES key, unreadable image, capacity exceeded, no hidden message) gives
\* an outcome with success == False and the description of that error.
C12_ErrorsBecomeOutcomes ==
    /\ hybrid.enc.success \in BOOLEAN
    /\ hybrid.dec.success \in BOOLEAN
    /\ EncCalled =>
        /\ ~hybrid.enc.success => hybrid.enc.error \notin {None, "", "not called"}
        /\ ~Stage1.ok => EncFailedWith(Stage1.err)
        /\ (Stage1.ok /\ ~Stage2.ok) => EncFailedWith(Stage2.err)
        /\ (Stage1.ok /\ Stage2.ok /\ ~CoverReadable) =>
               EncFailedWith("Exception: Error calculating capacity: no such file")
        /\ (Stage1.ok /\ Stage2.ok /\ CoverReadable
               /\ 8 * (Len(Stage2.val) + 9) > ChannelBytes(CoverImage)) =>
               ~hybrid.enc.success
    /\ DecCalled =>
        /\ ~hybrid.dec.success => hybrid.dec.error \notin {None, "", "not called"}
        /\ hybrid.dec_path \notin DOMAIN files =>
               DecFailedWith("Exception: Error extracting message: no such file")
        /\ hybrid.dec_path \in DOMAIN files =>
               LET extracted == extract_message(files, hybrid.dec_path).val
                   stage2 == decrypt_text(extracted, hybrid.dec_keys.sdes_key)
                   stage3 == hill_decrypt(stage2.val, hybrid.dec_keys.hill_key)
               IN  /\ extracted = <<>> =>
                          DecFailedWith("ValueError: No hidden message found in the image")
                   /\ (extracted # <<>> /\ ~stage2.ok) => DecFailedWith(stage2.err)
                   /\ (extracted # <<>> /\ stage2.ok /\ ~stage3.ok) =>
                          DecFailedWith(stage3.err)

\* the stego image of a successful encryption decrypted with an invalid
\* SDES key
C12_Witness ==
    /\ DecCalled
    /\ hybrid.enc.success
    /\ hybrid.dec_path = hybrid.enc.encrypted_image_path
    /\ ~sdes_generate_keys(hybrid.dec_keys.sdes_key).ok
    /\ ~hybrid.dec.success
    /\ hybrid.dec.error = "ValueError: key must be a 10-bit binary string"

\* the least significant bits of the channel bytes of the RGB form of an image
LsbStream(img) ==
    LET px == convert_rgb(img).px IN [i \in 1..Len(px) |-> px[i] % 2]

\* the 72 bits of "###END###" occur somewhere in the LSB stream of the image
DelimiterPresent(img) ==
    LET stream == LsbStream(img)
    IN  \E i \in 1..(Len(stream) - 71) :
            \A j \in 1..72 : stream[i + j - 1] = PayloadBit(<<>>, j)

NoHiddenMessage == "ValueError: No hidden message found in the image"

\* C13 (as claimed): hybrid_decrypt of an image file fails with the
\* no-hidden-message error exactly when the delimiter is absent from the
\* LSB stream of the image.
C13_NoHiddenIffDelimiterAbsent ==
    (DecCalled /\ hybrid.dec_path \in DOMAIN files) =>
        (DecFailedWith(NoHiddenMessage) <=> ~DelimiterPresent(files[hybrid.dec_path]))

\* one direction of it: when the delimiter is absent the error is reported
C13_AbsentGivesNoHidden ==
    (DecCalled /\ hybrid.dec_path \in DOMAIN files
        /\ ~DelimiterPresent(files[hybrid.dec_path])) =>
        DecFailedWith(NoHiddenMessage)

\* the other direction: when the delimiter is present it is not reported
C13_PresentGivesOtherOutcome ==
    (DecCalled /\ hybrid.dec_path \in DOMAIN files
        /\ DelimiterPresent(files[hybrid.dec_path])) =>
        ~DecFailedWith(NoHiddenMessage)

\* the two capacity errors: the orchestrator's own and hide_message's
OrchestratorCapacityError == "ValueError: Message too large for image"
HideCapacityError == "Exception: Error hiding message: Message too large for image"

\* the image bits the stage-2 payload and the delimiter take: 64 per letter of
\* the Hill ciphertext, and 72
PayloadImageBits == 8 * (Len(Stage2.val) + 9)

\* C15 (as claimed): without a cover image the call never fails for lack of
\* capacity, whatever the number of letters of the plaintext.
C15_PlaceholderAlwaysFits ==
    (EncCalled /\ ~CoverGiven /\ Stage1.ok /\ Stage2.ok) =>
        /\ hybrid.enc.success
        /\ PayloadImageBits = 64 * Len(Stage1.val) + 72
        /\ PayloadImageBits <= 3 * SampleWidth * SampleHeight

\* the plaintexts whose payload the placeholder holds are encrypted
C15_FittingPlaintextSucceeds ==
    (EncCalled /\ ~CoverGiven /\ Stage1.ok /\ Stage2.ok
        /\ 64 * Len(Stage1.val) + 72 <= 3 * SampleWidth * SampleHeight) =>
        hybrid.enc.success

\* C16 (as claimed): every payload that does not fit in the cover image is
\* rejected by the check of hybrid_encrypt itself, before hide_message is
\* called; hide_message is called only with a payload that fits.
C16_RejectedBeforeEmbedding ==
    (EncCalled /\ Stage1.ok /\ Stage2.ok /\ CoverReadable
        /\ PayloadImageBits > ChannelBytes(CoverImage)) =>
        EncFailedWith(OrchestratorCapacityError)

\* what does hold: such a payload is rejected, by one check or the other
C16_RejectedByEitherCheck ==
    (EncCalled /\ Stage1.ok /\ Stage2.ok /\ CoverReadable
        /\ PayloadImageBits > ChannelBytes(CoverImage)) =>
        (EncFailedWith(OrchestratorCapacityError) \/ EncFailedWith(HideCapacityError))

\* a 2x2 matrix with integer entries in [0, 26) whose determinant mod 26 is
\* coprime with 26
IsHillKeyMaterial(m) ==
    /\ Len(m) = 2 /\ Len(m[1]) = 2 /\ Len(m[2]) = 2
    /\ \A i \in 1..2, j \in 1..2 : m[i][j] \in 0..25
    /\ Coprime((m[1][1] * m[2][2] - m[1][2] * m[2][1]) % 26, 26)

IsKeyMaterial(keys) ==
    IsHillKeyMaterial(keys.hill_key) /\ IsTenBitString(keys.sdes_key)

\* C17 (as claimed): the keys generate_keys returns and the keys of every
\* successful hybrid_encrypt result are a 2x2 hill_key with entries in
\* [0, 26) and determinant coprime with 26 and an sdes_key that is a string
\* of 10 binary digits; a supplied key is reported unchanged, a missing one
\* is the generated one.
C17_KeyMaterial ==
    EncCalled =>
        /\ hybrid.args.generated # NotGenerated => IsKeyMaterial(hybrid.args.generated)
        /\ hybrid.enc.success =>
              /\ IsKeyMaterial(hybrid.enc.keys)
              /\ hybrid.enc.keys = [hill_key |-> UsedHillKey, sdes_key |-> UsedSdesKey]

\* what does hold of a successful result: the keys are the supplied or
\* generated ones, the Hill key passes validate_key_matrix and the SDES key
\* has 10 binary digits, as a string or as a list
C17_KeysUsedAreReported ==
    EncCalled =>
        /\ hybrid.args.generated # NotGenerated => IsKeyMaterial(hybrid.args.generated)
        /\ hybrid.enc.success =>
              /\ validate_key_matrix(hybrid.enc.keys.hill_key)
              /\ IsTenBinaryDigits(hybrid.enc.keys.sdes_key)
              /\ hybrid.enc.keys = [hill_key |-> UsedHillKey, sdes_key |-> UsedSdesKey]

\* a result reporting a supplied Hill key with the entry 33
C17_NeverReportsEntryAbove25 ==
    ~(EncCalled /\ hybrid.enc.success /\ hybrid.enc.keys.hill_key = Matrix(3, 2, 5, 33))

\* C18 (as claimed): after any sequence of hybrid_encrypt calls, also calls
\* without a cover image or without an output path, hybrid_decrypt on the
\* stego image of each successful call with the keys of that call recovers
\* the plaintext of that call.
C18_CallsIndependent ==
    hybrid.dec_of # 0 =>
        /\ hybrid.dec.success
        /\ hybrid.dec.decrypted_text =
               PaddedLetters(hybrid.calls[hybrid.dec_of].plaintext)

\* no later successful call has written to the path of the decrypted result
OwnStegoPath ==
    \A m \in 1..Len(hybrid.calls) :
        (m > hybrid.dec_of /\ hybrid.calls[m].enc.success) =>
            hybrid.calls[m].enc.encrypted_image_path
                # hybrid.calls[hybrid.dec_of].enc.encrypted_image_path

\* what does hold: the plaintext is recovered when no later call wrote its
\* stego image to the same path
C18_IndependentOnDistinctPaths ==
    (hybrid.dec_of # 0 /\ OwnStegoPath) =>
        /\ hybrid.dec.success
        /\ hybrid.dec.decrypted_text =
               PaddedLetters(hybrid.calls[hybrid.dec_of].plaintext)

\* C19: for every valid key K, encrypt returns, block by block of the
\* normalized text (p0, p1), the letters (K00*p0 + K01*p1) mod 26 and
\* (K10*p0 + K11*p1) mod 26 with A = 0 .. Z = 25; under [[3,2],[5,7]] "HE"
\* gives "DL", and "HELLO WORLD" is cleaned to the 10 letters "HELLOWORLD",
\* which decrypting its ciphertext returns.
C19_HillBlockFormula ==
    (Called(hill.enc) /\ KeyIsInvertible(hill.key)) =>
        LET K == hill.key
            norm == PaddedLetters(hill.text)
            p(i) == norm[i] - 65
        IN  /\ hill.enc.ok
            /\ Len(hill.enc.val) = Len(norm)
            /\ \A b \in 1..(Len(norm) \div 2) :
                   /\ hill.enc.val[2 * b - 1] =
                         65 + ((K[1][1] * p(2 * b - 1) + K[1][2] * p(2 * b)) % 26)
                   /\ hill.enc.val[2 * b] =
                         65 + ((K[2][1] * p(2 * b - 1) + K[2][2] * p(2 * b)) % 26)
            /\ (K = Matrix(3, 2, 5, 7) /\ hill.text = <<72, 69>>) =>
                   hill.enc.val = <<68, 76>>
            /\ (K = Matrix(3, 2, 5, 7) /\ Len(hill.text) = 11) =>
                   /\ Len(hill.enc.val) = 10
                   /\ (Called(hill.dec) /\ hill.dec_of = "cipher") =>
                          hill.dec.val = <<72, 69, 76, 76, 79, 87, 79, 82, 76, 68>>

\* "HELLO WORLD" encrypted under [[3,2],[5,7]] and decrypted again
C19_Witness ==
    /\ hill.key = Matrix(3, 2, 5, 7)
    /\ hill.text = <<72, 69, 76, 76, 79, 32, 87, 79, 82, 76, 68>>
    /\ hill.enc.ok
    /\ SubSeq(hill.enc.val, 1, 2) = <<68, 76>>
    /\ hill.dec_of = "cipher"
    /\ hill.dec.val = <<72, 69, 76, 76, 79, 87, 79, 82, 76, 68>>

\* the halves of IP(block), by the table of the initial permutation
ClaimIP == <<2, 6, 3, 1, 4, 8, 5, 7>>
ClaimIPInv == <<4, 1, 3, 5, 7, 2, 8, 6>>
BlockL == SubSeq(Select(sdes.block, ClaimIP), 1, 4)
BlockR == SubSeq(Select(sdes.block, ClaimIP), 5, 8)
Xor4(a, b) == [i \in 1..4 |-> (a[i] + b[i]) % 2]
SubK1 == sdes.keys.val[1]
SubK2 == sdes.keys.val[2]

\* C21 (as claimed): after round 1 and its swap the left half is
\* L xor f(R,K1) and the right half the old R; round 2 sets the final left to
\* left xor f(right,K2); the output is IP_INV(final left ++ right).
C21_BlockStructureAsClaimed ==
    Called(sdes.enc) =>
        LET left == Xor4(BlockL, f_function(BlockR, SubK1))
            right == BlockR
            final_left == Xor4(left, f_function(right, SubK2))
        IN  sdes.enc.val = Select(final_left \o right, ClaimIPInv)

\* C21 (amended): after round 1 and its swap the left half is the old R and
\* the right half is L xor f(R,K1); round 2 sets the final left to
\* left xor f(right,K2), no swap; the output is IP_INV(final left ++ right),
\* for every 8-bit block.
C21_BlockStructure ==
    Called(sdes.enc) =>
        LET left == BlockR
            right == Xor4(BlockL, f_function(BlockR, SubK1))
            final_left == Xor4(left, f_function(right, SubK2))
        IN  /\ sdes.enc.ok
            /\ Len(sdes.enc.val) = 8
            /\ sdes.enc.val = Select(final_left \o right, ClaimIPInv)

\* the block 01000001 ("A") encrypted under the subkeys of 1010000010
C21_Witness ==
    /\ sdes.key = StrKey(BitString(TestKeyBits))
    /\ sdes.block = <<0, 1, 0, 0, 0, 0, 0, 1>>
    /\ Called(sdes.enc)
    /\ sdes.enc.val # sdes.block

\* C24: for each of the 1024 keys and each of the 256 blocks b,
\* decrypt_block(encrypt_block(b,K1,K2),K1,K2) = b with (K1,K2) the subkeys
\* of the key; and IP_INV undoes IP.
C24_BlockInverse ==
    /\ Called(sdes.enc) =>
          Select(Select(sdes.block, ClaimIP), ClaimIPInv) = sdes.block
    /\ Called(sdes.dec) => (sdes.dec.ok /\ sdes.dec.val = sdes.block)

\* the block 11111111 decrypted back under the key 0101010101
C24_Witness ==
    /\ sdes.key = StrKey(BitString([i \in 1..10 |-> (i + 1) % 2]))
    /\ sdes.block = <<1, 1, 1, 1, 1, 1, 1, 1>>
    /\ Called(sdes.dec)
    /\ sdes.dec.val = sdes.block
    /\ sdes.enc.val # sdes.block

\* the k-th byte of an LSB stream, most significant bit first
StreamByte(stream, k) ==
    LET b(j) == stream[8 * (k - 1) + j]
    IN  128 * b(1) + 64 * b(2) + 32 * b(3) + 16 * b(4)
            + 8 * b(5) + 4 * b(6) + 2 * b(7) + b(8)

\* byte positions k at which the 9 bytes k .. k+8 of the stream are "###END###"
AlignedDelimiters(stream) ==
    {k \in 1..((Len(stream) \div 8) - 8) :
        \A j \in 1..9 :
            StreamByte(stream, k + j - 1) = <<35, 35, 35, 69, 78, 68, 35, 35, 35>>[j]}

ExtractedFile == files[stego.extract_path]

\* C22 (as claimed): extract_message returns the bytes before the first
\* byte-aligned delimiter of the LSB stream; a delimiter bit pattern at a bit
\* offset that is not a multiple of 8 does not end the message.
C22_ByteAlignedDelimiter ==
    (Called(stego.extract) /\ AlignedDelimiters(LsbStream(ExtractedFile)) # {}) =>
        LET stream == LsbStream(ExtractedFile)
            first == CHOOSE k \in AlignedDelimiters(stream) :
                        \A m \in AlignedDelimiters(stream) : k <= m
        IN  /\ stego.extract.ok
            /\ stego.extract.val = [k \in 1..(first - 1) |-> StreamByte(stream, k)]

\* what the code does: the message ends at the first bit position, aligned or
\* not, at which the last 72 bits read are the delimiter's
C22_FirstDelimiterAtAnyBit ==
    (Called(stego.extract) /\ DelimiterPresent(ExtractedFile)) =>
        LET stream == LsbStream(ExtractedFile)
            start == CHOOSE i \in 1..(Len(stream) - 71) :
                        /\ \A j \in 1..72 : stream[i + j - 1] = PayloadBit(<<>>, j)
                        /\ \A i2 \in 1..(i - 1) :
                              \E j \in 1..72 : stream[i2 + j - 1] # PayloadBit(<<>>, j)
        IN  /\ stego.extract.ok
            /\ stego.extract.val =
                   [k \in 1..((start - 1) \div 8) |-> StreamByte(stream, k)]

\* C23: after a successful hide_message on an RGB cover within the size limit
\* with N embedded bits, every channel byte of the stego image differs from
\* the cover's by at most 1 and at most N bytes differ; compare_images
\* reports max_difference <= 1, changed_pixels <= N and change_percentage =
\* 100 * changed_pixels / total_pixels.
C23_MinimalVisualImpact ==
    (HideSucceeded /\ stego.cover.mode = "RGB" /\ ~Oversized(stego.cover)) =>
        LET N == stego.hide.val[2]
            old == stego.cover.px
            new == StegoImage.px
        IN  /\ Len(new) = Len(old)
            /\ \A i \in 1..Len(old) : new[i] - old[i] \in {-1, 0, 1}
            /\ Cardinality({i \in 1..Len(old) : new[i] # old[i]}) <= N
            /\ Called(stego.compare) =>
                  /\ stego.compare.ok
                  /\ stego.compare.val.max_difference <= 1
                  /\ stego.compare.val.changed_pixels <= N
                  /\ stego.compare.val.total_pixels = Len(old)
                  /\ stego.compare.val.change_percentage[1]
                          * stego.compare.val.total_pixels
                       = 100 * stego.compare.val.changed_pixels
                          * stego.compare.val.change_percentage[2]

\* "HI" hidden in the 8x5 RGB cover of mixed bytes and compared with it: some
\* of the 88 bytes carrying the payload changed
C23_Witness ==
    /\ stego.pc = "compared"
    /\ stego.cover.mode = "RGB" /\ stego.cover.w = 8 /\ stego.cover.h = 5
    /\ stego.message = <<72, 73>>
    /\ stego.hide.val[1] # CoverPath
    /\ stego.compare.ok
    /\ stego.compare.val.max_difference = 1
    /\ stego.compare.val.changed_pixels \in 1..88

\* the product of two 2x2 matrices, mod 26
MatMul26(A, B) ==
    [r \in 1..2 |-> [c \in 1..2 |-> (A[r][1] * B[1][c] + A[r][2] * B[2][c]) % 26]]

\* C25: for every 2x2 key K over [0, 26) with gcd(det K mod 26, 26) = 1,
\* matrix_mod_inverse(K, 26) returns M with entries in [0, 26) and
\* K*M = M*K = identity mod 26; mod_inverse(a, 26) returns x in [0, 26) with
\* a*x mod 26 = 1 for every a coprime with 26.
C25_MatrixInverse ==
    /\ (hill.op = "matrix_mod_inverse" /\ KeyIsInvertible(hill.key)) =>
          /\ hill.out.ok
          /\ \A r \in 1..2, c \in 1..2 : hill.out.val[r][c] \in 0..25
          /\ MatMul26(hill.key, hill.out.val) = Matrix(1, 0, 0, 1)
          /\ MatMul26(hill.out.val, hill.key) = Matrix(1, 0, 0, 1)
    /\ (hill.op = "mod_inverse" /\ Coprime(hill.a, 26)) =>
          /\ hill.out.ok
          /\ hill.out.val \in 0..25
          /\ (hill.a * hill.out.val) % 26 = 1

\* the inverse [[3,14],[9,5]] of the key [[3,2],[5,7]]
C25_Witness ==
    /\ hill.op = "matrix_mod_inverse"
    /\ hill.key = Matrix(3, 2, 5, 7)
    /\ hill.out.ok
    /\ hill.out.val = Matrix(3, 14, 9, 5)

ClaimEP == <<4, 1, 2, 3, 2, 3, 4, 1>>
ClaimP4 == <<2, 4, 3, 1>>

\* the output of an S-box for a 4-bit group g (g[0..3] of the claim are
\* g[1..4] here), as 2 bits, most significant first
BoxBits(box, g) ==
    LET row == 2 * g[1] + g[4]
        col == 2 * g[2] + g[3]
        v == box[row + 1][col + 1]
    IN  <<v \div 2, v % 2>>

\* C26: for every 4-bit half h and 8-bit subkey k, f_function(h, k) =
\* P4(S0[row0][col0] as 2 bits ++ S1[row1][col1] as 2 bits) with
\* x = EP(h) xor k, row = 2*g[0] + g[3] and column = 2*g[1] + g[2] for each
\* 4-bit group g of x; the result has exactly 4 bits.
C26_RoundFunction ==
    Called(sdes.out) =>
        LET e == Select(sdes.half, ClaimEP)
            x == [i \in 1..8 |-> (e[i] + sdes.subkey[i]) % 2]
            boxes == BoxBits(S0, SubSeq(x, 1, 4)) \o BoxBits(S1, SubSeq(x, 5, 8))
        IN  /\ sdes.out.ok
            /\ Len(sdes.out.val) = 4
            /\ \A i \in 1..4 : sdes.out.val[i] \in {0, 1}
            /\ sdes.out.val = Select(boxes, ClaimP4)

\* f(1101, 10100100): EP gives 11101011, xor 01001111, S0[0][2] = 3 and
\* S1[3][3] = 3, so 1111 and after P4 1111
C26_Witness ==
    /\ sdes.half = <<1, 1, 0, 1>>
    /\ sdes.subkey = <<1, 0, 1, 0, 0, 1, 0, 0>>
    /\ Called(sdes.out)
    /\ sdes.out.val = <<1, 1, 1, 1>>

\* a letter, among the characters up to U+00FF
IsLetterChar(c) ==
    \/ c \in 65..90 \/ c \in 97..122 \/ c \in {170, 181, 186}
    \/ (c \in 192..255 /\ c \notin {215, 247})

LetterCount(t) == Len(SelectSeq(t, IsLetterChar))

\* the upper-cased letters of a text: U+00DF becomes "SS", U+00FF U+0178,
\* U+00B5 U+039C, a lower-case letter otherwise the letter 32 below it
RECURSIVE UpperLetters(_)
UpperLetters(t) ==
    IF t = <<>> THEN <<>>
    ELSE LET c == Head(t)
             u == IF ~IsLetterChar(c) THEN <<>>
                  ELSE IF c = 223 THEN <<83, 83>>
                  ELSE IF c = 255 THEN <<376>>
                  ELSE IF c = 181 THEN <<924>>
                  ELSE IF c \in 97..122 \/ c \in 224..254 THEN <<c - 32>>
                  ELSE <<c>>
         IN  u \o UpperLetters(Tail(t))

OnlyAtoZ(t) == \A i \in 1..Len(t) : t[i] \in 65..90

\* the ciphertext of a normalized text of even length under the key K
CipherOf(K, norm) ==
    [i \in 1..Len(norm) |->
        LET p0 == norm[IF i % 2 = 1 THEN i ELSE i - 1] - 65
            p1 == norm[IF i % 2 = 1 THEN i + 1 ELSE i] - 65
            row == IF i % 2 = 1 THEN 1 ELSE 2
        IN  65 + ((K[row][1] * p0 + K[row][2] * p1) % 26)]

\* C27 (as claimed): for every text and valid key the ciphertext has letters
\* A-Z only, an even length equal to the number of letters of the text plus
\* one when that number is odd, and is empty for a text without letters.
C27_NormalizationByLetterCount ==
    (Called(hill.enc) /\ KeyIsInvertible(hill.key)) =>
        LET n == LetterCount(hill.text)
        IN  /\ hill.enc.ok
            /\ OnlyAtoZ(hill.enc.val)
            /\ Len(hill.enc.val) % 2 = 0
            /\ Len(hill.enc.val) = n + (n % 2)
            /\ n = 0 => hill.enc.val = <<>>

\* C27 (amended): encrypt discards the non-letters, upper-cases the rest
\* (U+00DF becoming "SS") and appends one 'X' when the length of the
\* upper-cased string is odd; the ciphertext is that of this string, has
\* letters A-Z only and its even length, and is empty for a text without
\* letters.
C27_Normalization ==
    (Called(hill.enc) /\ KeyIsInvertible(hill.key)) =>
        LET u == UpperLetters(hill.text)
            norm == IF Len(u) % 2 = 1 THEN Append(u, 88) ELSE u
        IN  /\ hill.enc.ok
            /\ hill.enc.val = CipherOf(hill.key, norm)
            /\ OnlyAtoZ(hill.enc.val)
            /\ Len(hill.enc.val) % 2 = 0
            /\ Len(hill.enc.val) = Len(norm)
            /\ LetterCount(hill.text) = 0 => hill.enc.val = <<>>

\* 'h', '1' and U+00DF under [[3,2],[5,7]]: two letters, normalized to "HSS"
\* and the pad 'X', 4 letters of ciphertext
C27_Witness ==
    /\ hill.key = Matrix(3, 2, 5, 7)
    /\ hill.text = <<104, 49, 223>>
    /\ hill.enc.ok
    /\ Len(hill.enc.val) = 4

\* every file except the placeholder cover is as it was before the call
OnlyPlaceholderWritten ==
    /\ DOMAIN hybrid.before \subseteq DOMAIN files
    /\ \A p \in DOMAIN files :
          p # TempCover => (p \in DOMAIN hybrid.before /\ files[p] = hybrid.before[p])

\* C28: hybrid_encrypt stops at the first failing stage of Hill encryption,
\* SDES encryption, capacity check, embedding; whenever it returns
\* success == False no stego image has been written, and when the failure is
\* an invalid Hill or SDES key no cover image has been created either.
C28_StageOrderOnFailure ==
    (hybrid.pc = "encrypted") =>
        /\ ~Stage1.ok => (EncFailedWith(Stage1.err) /\ files = hybrid.before)
        /\ (Stage1.ok /\ ~Stage2.ok) =>
               (EncFailedWith(Stage2.err) /\ files = hybrid.before)
        /\ ~hybrid.enc.success =>
               /\ OnlyPlaceholderWritten
               /\ files # hybrid.before =>
                      (Stage1.ok /\ Stage2.ok /\ ~CoverGiven)
        /\ hybrid.enc.success =>
               (Stage1.ok /\ Stage2.ok
                   /\ hybrid.enc.encrypted_image_path \in DOMAIN files)

\* a call without cover image that failed in hide_message: the placeholder
\* exists, the stego image does not
C28_Witness ==
    /\ hybrid.pc = "encrypted"
    /\ EncFailedWith(HideCapacityError)
    /\ ~CoverGiven
    /\ TempCover \in DOMAIN files
    /\ HybridPath(TempCover) \notin DOMAIN files
    /\ hybrid.args.output_image_path = None

\* encrypt_text returns 8 binary digits per character of the text
EncryptTextLength ==
    (sdes.op = "encrypt_text" /\ sdes.out.ok) =>
        /\ Len(sdes.out.val) = 8 * Len(sdes.text)
        /\ \A i \in 1..Len(sdes.out.val) : sdes.out.val[i] \in {48, 49}

\* decrypt and decrypt_text report an error for a ciphertext whose bit length
\* is not a multiple of 8
IncompleteBlockReported ==
    (sdes.op \in {"decrypt", "decrypt_text"} /\ Len(sdes.bits) % 8 # 0) =>
        ~sdes.out.ok

\* C29: no silent truncation in the block cipher: encrypt_text returns a
\* string over {0,1} of length exactly 8*len(text), and decrypt/decrypt_text
\* given a ciphertext whose bit length is not a multiple of 8 report an error
\* instead of returning a result computed from the truncated input.
C29_NoSilentTruncation == EncryptTextLength /\ IncompleteBlockReported

\* what the code does with the 11-bit ciphertext: the plaintext of its first
\* 8 bits, the last 3 bits dropped
C29_TruncatedResult ==
    (sdes.op = "decrypt" /\ Len(sdes.bits) = 11) =>
        /\ sdes.out = sdes_decrypt(SubSeq(sdes.bits, 1, 8), sdes.key)
        /\ sdes.key = ListKey(TestKeyBits) => sdes.out.ok

\* a matrix over [0, 26) that has an inverse modulo 26
InvertibleMod26(K) ==
    /\ \A r, c \in 1..2 : K[r][c] \in 0..25
    /\ \E d \in 1..25 : (Det(K) * d) % 26 = 1

GenerateReturned == hill.pc = "returned"

\* the matrix generate_random_key returns is a valid key
ReturnedKeyValid ==
    GenerateReturned =>
        /\ hill.out.ok
        /\ InvertibleMod26(hill.out.val)
        /\ gcd(Det(hill.out.val) % 26, 26) = 1

\* C30: Hill generate_random_key terminates and returns a valid key: under
\* fair random sampling of 2x2 matrices over [0, 26) the rejection loop
\* eventually exits, and the matrix it returns always passes
\* validate_key_matrix.
C30_TerminatesWithValidKey == <>GenerateReturned /\ []ReturnedKeyValid

\* without fairness the loop may reject for ever
C30_TerminatesWithoutFairness == <>GenerateReturned

\* the key of the tests returned after candidates were discarded
C30_Witness ==
    /\ GenerateReturned
    /\ hill.rejected = MaxRejected
    /\ hill.out = Ok(Matrix(3, 2, 5, 7))

=============================================================================
